---------------------------- MODULE Spec2Model ----------------------------
(* A model of the Personal Documentation Assistant: the Model Gateway      *)
(* (llm.py, class LLMManager), the start-up sequence (main.py), the        *)
(* generate action with its background worker and re-enable timer (ui.py)  *)
(* and the call into the Report Emitter (reporter.py).                     *)
(*                                                                         *)
(* A Python str is a sequence of characters, each character a TLA+ string  *)
(* of length one; a character outside ASCII is named by its code point.    *)
EXTENDS Integers, Sequences, FiniteSets, TLC

---------------------------------------------------------------------------
(* Bounds of the model                                                     *)

\* longest text handed to a Gateway operation in SpecGateway
MaxTextLen == 3
\* generate actions per session in SpecRuns
MaxRuns == 2

---------------------------------------------------------------------------
(* Python str operations, as far as the program uses them                  *)

BULLET == "U+2022"

\* the characters str.strip() and str.split() treat as whitespace
WS == {" ", "\n", "\t"}

\* str.strip()
strip(s) ==
  LET n     == Len(s)
      lead  == Cardinality({i \in 1..n : \A j \in 1..i : s[j] \in WS})
      trail == Cardinality({i \in 1..n : \A j \in i..n : s[j] \in WS})
  IN  IF lead = n THEN << >> ELSE SubSeq(s, lead + 1, n - trail)

\* str.lstrip(chars)
lstrip(s, chars) ==
  LET n    == Len(s)
      lead == Cardinality({i \in 1..n : \A j \in 1..i : s[j] \in chars})
  IN  SubSeq(s, lead + 1, n)

\* str.replace(old, new) for single characters
replace(s, old, new) == [i \in 1..Len(s) |-> IF s[i] = old THEN new ELSE s[i]]

\* str.split(sep) for a single-character separator: every piece, empty ones kept
split(s, sep) ==
  LET n    == Len(s)
      P    == {i \in 1..n : s[i] = sep}
      ends == P \cup {n + 1}
      endOf(k)  == CHOOSE p \in ends : Cardinality({q \in P : q < p}) = k - 1
  IN  [k \in 1..(Cardinality(P) + 1) |->
         LET p == endOf(k)
             prev == IF k = 1 THEN 0 ELSE endOf(k - 1)
         IN  SubSeq(s, prev + 1, p - 1)]

\* len(str.split()): the number of whitespace-separated words
words(s) ==
  Cardinality({i \in 1..Len(s) : s[i] \notin WS /\ (i = 1 \/ s[i - 1] \in WS)})

\* the places where sub occurs in s
occurrences(s, sub) ==
  {i \in 1..(Len(s) - Len(sub) + 1) : \A j \in 1..Len(sub) : s[i + j - 1] = sub[j]}

\* sub in s
contains(s, sub) == occurrences(s, sub) # {}

\* s.split(sub)[-1] for a marker that cannot overlap itself: what follows the
\* last occurrence of sub
after_last(s, sub) ==
  LET occ  == occurrences(s, sub)
      last == CHOOSE i \in occ : \A k \in occ : k <= i
  IN  SubSeq(s, last + Len(sub), Len(s))

\* sep.join(parts)
RECURSIVE join(_, _)
join(parts, sep) ==
  IF parts = << >> THEN << >>
  ELSE IF Len(parts) = 1 THEN parts[1]
  ELSE parts[1] \o sep \o join(Tail(parts), sep)

\* [x for x in seq if x]: the non-empty strings of a list, in order
RECURSIVE drop_empty(_)
drop_empty(seq) ==
  IF seq = << >> THEN << >>
  ELSE IF seq[1] # << >> THEN << seq[1] >> \o drop_empty(Tail(seq))
  ELSE drop_empty(Tail(seq))

DIGITS == << "0", "1", "2", "3", "4", "5", "6", "7", "8", "9" >>

\* str(n) of a natural number, as an f-string formats it
RECURSIVE str(_)
str(n) == IF n < 10 THEN << DIGITS[n + 1] >> ELSE str(n \div 10) \o << DIGITS[(n % 10) + 1] >>

---------------------------------------------------------------------------
(* String literals of llm.py                                               *)

\* llm.py:86: 'No notes provided.'
NO_NOTES_PROVIDED ==
  << "N", "o", " ", "n", "o", "t", "e", "s", " ", "p", "r", "o", "v", "i", "d", "e", "d", "." >>

\* llm.py:106: 'No notes provided to expand.'
NO_NOTES_TO_EXPAND ==
  << "N", "o", " ", "n", "o", "t", "e", "s", " ", "p", "r", "o", "v", "i", "d", "e", "d", " ",
     "t", "o", " ", "e", "x", "p", "a", "n", "d", "." >>

\* llm.py:140: 'Summary:'
SUMMARY_MARKER ==
  << "S", "u", "m", "m", "a", "r", "y", ":" >>

\* llm.py:181: 'Detailed Documentation:'
DETAILED_MARKER ==
  << "D", "e", "t", "a", "i", "l", "e", "d", " ", "D", "o", "c", "u", "m", "e", "n", "t", "a",
     "t", "i", "o", "n", ":" >>

\* llm.py:304: 'Enhanced Notes:'
ENHANCED_MARKER ==
  << "E", "n", "h", "a", "n", "c", "e", "d", " ", "N", "o", "t", "e", "s", ":" >>

\* llm.py:203: 'Daily activities were documented.'
DAILY_ACTIVITIES_DOCUMENTED ==
  << "D", "a", "i", "l", "y", " ", "a", "c", "t", "i", "v", "i", "t", "i", "e", "s", " ", "w",
     "e", "r", "e", " ", "d", "o", "c", "u", "m", "e", "n", "t", "e", "d", "." >>

\* llm.py:220: 'Today involved '
TODAY_INVOLVED ==
  << "T", "o", "d", "a", "y", " ", "i", "n", "v", "o", "l", "v", "e", "d", " " >>

\* llm.py:220: ' documented activities and tasks.'
DOCUMENTED_ACTIVITIES ==
  << " ", "d", "o", "c", "u", "m", "e", "n", "t", "e", "d", " ", "a", "c", "t", "i", "v", "i",
     "t", "i", "e", "s", " ", "a", "n", "d", " ", "t", "a", "s", "k", "s", "." >>

\* llm.py:232: 'No activities to expand upon.'
NO_ACTIVITIES_TO_EXPAND ==
  << "N", "o", " ", "a", "c", "t", "i", "v", "i", "t", "i", "e", "s", " ", "t", "o", " ", "e",
     "x", "p", "a", "n", "d", " ", "u", "p", "o", "n", "." >>

\* llm.py:245: '**Activity '
ACTIVITY_OPEN ==
  << "*", "*", "A", "c", "t", "i", "v", "i", "t", "y", " " >>

\* llm.py:245: ':** '
ACTIVITY_CLOSE ==
  << ":", "*", "*", " " >>

\* llm.py:245: '. This task involved careful planning and execution, contributing to the overall project objectives. The completion of this activity helps maintain project momentum and ensures quality deliverables.'
LONG_FORM ==
  << ".", " ", "T", "h", "i", "s", " ", "t", "a", "s", "k", " ", "i", "n", "v", "o", "l", "v",
     "e", "d", " ", "c", "a", "r", "e", "f", "u", "l", " ", "p", "l", "a", "n", "n", "i", "n",
     "g", " ", "a", "n", "d", " ", "e", "x", "e", "c", "u", "t", "i", "o", "n", ",", " ", "c",
     "o", "n", "t", "r", "i", "b", "u", "t", "i", "n", "g", " ", "t", "o", " ", "t", "h", "e",
     " ", "o", "v", "e", "r", "a", "l", "l", " ", "p", "r", "o", "j", "e", "c", "t", " ", "o",
     "b", "j", "e", "c", "t", "i", "v", "e", "s", ".", " ", "T", "h", "e", " ", "c", "o", "m",
     "p", "l", "e", "t", "i", "o", "n", " ", "o", "f", " ", "t", "h", "i", "s", " ", "a", "c",
     "t", "i", "v", "i", "t", "y", " ", "h", "e", "l", "p", "s", " ", "m", "a", "i", "n", "t",
     "a", "i", "n", " ", "p", "r", "o", "j", "e", "c", "t", " ", "m", "o", "m", "e", "n", "t",
     "u", "m", " ", "a", "n", "d", " ", "e", "n", "s", "u", "r", "e", "s", " ", "q", "u", "a",
     "l", "i", "t", "y", " ", "d", "e", "l", "i", "v", "e", "r", "a", "b", "l", "e", "s", "." >>

\* llm.py:247: '. This represents a significant milestone in the daily workflow, requiring coordination and attention to detail.'
SHORT_FORM ==
  << ".", " ", "T", "h", "i", "s", " ", "r", "e", "p", "r", "e", "s", "e", "n", "t", "s", " ",
     "a", " ", "s", "i", "g", "n", "i", "f", "i", "c", "a", "n", "t", " ", "m", "i", "l", "e",
     "s", "t", "o", "n", "e", " ", "i", "n", " ", "t", "h", "e", " ", "d", "a", "i", "l", "y",
     " ", "w", "o", "r", "k", "f", "l", "o", "w", ",", " ", "r", "e", "q", "u", "i", "r", "i",
     "n", "g", " ", "c", "o", "o", "r", "d", "i", "n", "a", "t", "i", "o", "n", " ", "a", "n",
     "d", " ", "a", "t", "t", "e", "n", "t", "i", "o", "n", " ", "t", "o", " ", "d", "e", "t",
     "a", "i", "l", "." >>

\* llm.py:252: "\n**Daily Overview:** Today's activities encompassed "
OVERVIEW_OPEN ==
  << "\n", "*", "*", "D", "a", "i", "l", "y", " ", "O", "v", "e", "r", "v", "i", "e", "w", ":",
     "*", "*", " ", "T", "o", "d", "a", "y", "'", "s", " ", "a", "c", "t", "i", "v", "i", "t",
     "i", "e", "s", " ", "e", "n", "c", "o", "m", "p", "a", "s", "s", "e", "d", " " >>

\* llm.py:252: ' key areas of focus, each contributing to broader project goals and professional development. The documented tasks reflect a productive day with meaningful progress across multiple initiatives.'
OVERVIEW_CLOSE ==
  << " ", "k", "e", "y", " ", "a", "r", "e", "a", "s", " ", "o", "f", " ", "f", "o", "c", "u",
     "s", ",", " ", "e", "a", "c", "h", " ", "c", "o", "n", "t", "r", "i", "b", "u", "t", "i",
     "n", "g", " ", "t", "o", " ", "b", "r", "o", "a", "d", "e", "r", " ", "p", "r", "o", "j",
     "e", "c", "t", " ", "g", "o", "a", "l", "s", " ", "a", "n", "d", " ", "p", "r", "o", "f",
     "e", "s", "s", "i", "o", "n", "a", "l", " ", "d", "e", "v", "e", "l", "o", "p", "m", "e",
     "n", "t", ".", " ", "T", "h", "e", " ", "d", "o", "c", "u", "m", "e", "n", "t", "e", "d",
     " ", "t", "a", "s", "k", "s", " ", "r", "e", "f", "l", "e", "c", "t", " ", "a", " ", "p",
     "r", "o", "d", "u", "c", "t", "i", "v", "e", " ", "d", "a", "y", " ", "w", "i", "t", "h",
     " ", "m", "e", "a", "n", "i", "n", "g", "f", "u", "l", " ", "p", "r", "o", "g", "r", "e",
     "s", "s", " ", "a", "c", "r", "o", "s", "s", " ", "m", "u", "l", "t", "i", "p", "l", "e",
     " ", "i", "n", "i", "t", "i", "a", "t", "i", "v", "e", "s", "." >>

\* llm.py:268: 'No notes provided to enhance.'
NO_NOTES_TO_ENHANCE ==
  << "N", "o", " ", "n", "o", "t", "e", "s", " ", "p", "r", "o", "v", "i", "d", "e", "d", " ",
     "t", "o", " ", "e", "n", "h", "a", "n", "c", "e", "." >>

\* llm.py:324: 'No activities to enhance.'
NO_ACTIVITIES_TO_ENHANCE ==
  << "N", "o", " ", "a", "c", "t", "i", "v", "i", "t", "i", "e", "s", " ", "t", "o", " ", "e",
     "n", "h", "a", "n", "c", "e", "." >>

\* llm.py:328: '**Professional Activity:**'
PROFESSIONAL_PREFIX ==
  << "*", "*", "P", "r", "o", "f", "e", "s", "s", "i", "o", "n", "a", "l", " ", "A", "c", "t",
     "i", "v", "i", "t", "y", ":", "*", "*" >>

\* llm.py:329: 'This activity aligns with organizational objectives and demonstrates professional competency.'
PROFESSIONAL_SUFFIX ==
  << "T", "h", "i", "s", " ", "a", "c", "t", "i", "v", "i", "t", "y", " ", "a", "l", "i", "g",
     "n", "s", " ", "w", "i", "t", "h", " ", "o", "r", "g", "a", "n", "i", "z", "a", "t", "i",
     "o", "n", "a", "l", " ", "o", "b", "j", "e", "c", "t", "i", "v", "e", "s", " ", "a", "n",
     "d", " ", "d", "e", "m", "o", "n", "s", "t", "r", "a", "t", "e", "s", " ", "p", "r", "o",
     "f", "e", "s", "s", "i", "o", "n", "a", "l", " ", "c", "o", "m", "p", "e", "t", "e", "n",
     "c", "y", "." >>

\* llm.py:332: '**Personal Development:**'
PERSONAL_PREFIX ==
  << "*", "*", "P", "e", "r", "s", "o", "n", "a", "l", " ", "D", "e", "v", "e", "l", "o", "p",
     "m", "e", "n", "t", ":", "*", "*" >>

\* llm.py:333: 'This experience contributes to personal growth and skill development.'
PERSONAL_SUFFIX ==
  << "T", "h", "i", "s", " ", "e", "x", "p", "e", "r", "i", "e", "n", "c", "e", " ", "c", "o",
     "n", "t", "r", "i", "b", "u", "t", "e", "s", " ", "t", "o", " ", "p", "e", "r", "s", "o",
     "n", "a", "l", " ", "g", "r", "o", "w", "t", "h", " ", "a", "n", "d", " ", "s", "k", "i",
     "l", "l", " ", "d", "e", "v", "e", "l", "o", "p", "m", "e", "n", "t", "." >>

\* llm.py:336: '**Technical Implementation:**'
TECHNICAL_PREFIX ==
  << "*", "*", "T", "e", "c", "h", "n", "i", "c", "a", "l", " ", "I", "m", "p", "l", "e", "m",
     "e", "n", "t", "a", "t", "i", "o", "n", ":", "*", "*" >>

\* llm.py:337: 'This task required technical expertise and problem-solving capabilities.'
TECHNICAL_SUFFIX ==
  << "T", "h", "i", "s", " ", "t", "a", "s", "k", " ", "r", "e", "q", "u", "i", "r", "e", "d",
     " ", "t", "e", "c", "h", "n", "i", "c", "a", "l", " ", "e", "x", "p", "e", "r", "t", "i",
     "s", "e", " ", "a", "n", "d", " ", "p", "r", "o", "b", "l", "e", "m", "-", "s", "o", "l",
     "v", "i", "n", "g", " ", "c", "a", "p", "a", "b", "i", "l", "i", "t", "i", "e", "s", "." >>

\* the characters line.lstrip(...) removes (llm.py:238, 345)
BULLET_CHARS == {BULLET, "-", "*", " "}

\* the separator of '\n\n'.join (llm.py:254, 350)
BLANK_LINE == << "\n", "\n" >>

---------------------------------------------------------------------------
(* The deterministic fallbacks of the Model Gateway                        *)

\* a loop that keeps a sentence of two words
RECURSIVE meaningful_loop_two_words(_, _)
meaningful_loop_two_words(rest, kept) ==
  IF rest = << >> THEN kept
  ELSE LET kept2 == IF words(rest[1]) >= 2 THEN Append(kept, rest[1]) ELSE kept
       IN  IF Len(kept2) >= 2 THEN kept2
           ELSE meaningful_loop_two_words(Tail(rest), kept2)

\* for sentence in sentences[:5]: keep it when it has at least 3 words, stop
\* once two are kept (llm.py:210-215)
RECURSIVE meaningful_loop(_, _)
meaningful_loop(rest, kept) ==
  IF rest = << >> THEN kept
  ELSE LET kept2 == IF words(rest[1]) >= 3 THEN Append(kept, rest[1]) ELSE kept
       IN  IF Len(kept2) >= 2 THEN kept2 ELSE meaningful_loop(Tail(rest), kept2)

\* a fallback summarizer that treats a single sentence like several
generate_fallback_summary_no_single(text) ==
  LET pieces    == split(replace(text, "\n", " "), ".")
      sentences == drop_empty([k \in 1..Len(pieces) |-> strip(pieces[k])])
      first5    == SubSeq(sentences, 1, IF Len(sentences) < 5 THEN Len(sentences) ELSE 5)
      meaningful_sentences == meaningful_loop(first5, << >>)
  IN  IF sentences = << >> THEN DAILY_ACTIVITIES_DOCUMENTED
      ELSE IF meaningful_sentences # << >>
           THEN join(meaningful_sentences, << ".", " " >>) \o << "." >>
           ELSE TODAY_INVOLVED \o str(Len(sentences)) \o DOCUMENTED_ACTIVITIES

generate_fallback_summary(text) ==
  LET pieces    == split(replace(text, "\n", " "), ".")
      sentences == drop_empty([k \in 1..Len(pieces) |-> strip(pieces[k])])
      first5    == SubSeq(sentences, 1, IF Len(sentences) < 5 THEN Len(sentences) ELSE 5)
      meaningful_sentences == meaningful_loop(first5, << >>)
  IN  IF sentences = << >> THEN DAILY_ACTIVITIES_DOCUMENTED
      ELSE IF Len(sentences) = 1 THEN sentences[1] \o << "." >>
      ELSE IF meaningful_sentences # << >>
           THEN join(meaningful_sentences, << ".", " " >>) \o << "." >>
           ELSE TODAY_INVOLVED \o str(Len(sentences)) \o DOCUMENTED_ACTIVITIES

\* the non-empty stripped lines of text (llm.py:229, 321)
stripped_lines(text) ==
  LET raw == split(text, "\n")
  IN  drop_empty([k \in 1..Len(raw) |-> strip(raw[k])])

\* a loop body that gives every line the long-form template
expand_line_always_long(i, line) ==
  LET clean_line == strip(lstrip(line, BULLET_CHARS))
  IN  IF clean_line = << >> THEN << >>
      ELSE << ACTIVITY_OPEN \o str(i) \o ACTIVITY_CLOSE \o clean_line \o LONG_FORM >>

\* one pass of the loop over enumerate(lines, 1) (llm.py:236-249)
expand_line(i, line) ==
  LET clean_line == strip(lstrip(line, BULLET_CHARS))
  IN  IF clean_line = << >> THEN << >>
      ELSE IF words(clean_line) < 5
           THEN << ACTIVITY_OPEN \o str(i) \o ACTIVITY_CLOSE \o clean_line \o LONG_FORM >>
           ELSE << ACTIVITY_OPEN \o str(i) \o ACTIVITY_CLOSE \o clean_line \o SHORT_FORM >>

RECURSIVE expand_loop(_, _)
expand_loop(lines, i) ==
  IF i > Len(lines) THEN << >>
  ELSE expand_line(i, lines[i]) \o expand_loop(lines, i + 1)

\* a fallback expander without the closing paragraph
generate_fallback_detailed_notes_bare(text) ==
  LET lines == stripped_lines(text)
  IN  IF lines = << >> THEN NO_ACTIVITIES_TO_EXPAND
      ELSE join(expand_loop(lines, 1), BLANK_LINE)

generate_fallback_detailed_notes(text) ==
  LET lines          == stripped_lines(text)
      detailed_lines == expand_loop(lines, 1)
      conclusion     == OVERVIEW_OPEN \o str(Len(detailed_lines)) \o OVERVIEW_CLOSE
  IN  IF lines = << >> THEN NO_ACTIVITIES_TO_EXPAND
      ELSE join(detailed_lines, BLANK_LINE) \o conclusion

\* a lookup that gives an unknown context kind the personal pair
context_template_personal_default(context_type) ==
  IF context_type = "professional"
  THEN [prefix |-> PROFESSIONAL_PREFIX, suffix |-> PROFESSIONAL_SUFFIX]
  ELSE IF context_type = "technical"
  THEN [prefix |-> TECHNICAL_PREFIX, suffix |-> TECHNICAL_SUFFIX]
  ELSE [prefix |-> PERSONAL_PREFIX, suffix |-> PERSONAL_SUFFIX]

\* context_templates.get(context_type, context_templates["professional"])
context_template(context_type) ==
  IF context_type = "personal"
  THEN [prefix |-> PERSONAL_PREFIX, suffix |-> PERSONAL_SUFFIX]
  ELSE IF context_type = "technical"
  THEN [prefix |-> TECHNICAL_PREFIX, suffix |-> TECHNICAL_SUFFIX]
  ELSE [prefix |-> PROFESSIONAL_PREFIX, suffix |-> PROFESSIONAL_SUFFIX]

RECURSIVE enhance_loop(_, _, _)
enhance_loop(lines, k, template) ==
  IF k > Len(lines) THEN << >>
  ELSE LET clean_line == strip(lstrip(lines[k], BULLET_CHARS))
           enhanced   == template.prefix \o << " " >> \o clean_line \o << ".", " " >>
                         \o template.suffix
       IN  (IF clean_line # << >> THEN << enhanced >> ELSE << >>)
           \o enhance_loop(lines, k + 1, template)

generate_fallback_enhanced_notes(text, context_type) ==
  LET lines == stripped_lines(text)
  IN  IF lines = << >> THEN NO_ACTIVITIES_TO_ENHANCE
      ELSE join(enhance_loop(lines, 1, context_template(context_type)), BLANK_LINE)

---------------------------------------------------------------------------
(* The model invocation and the prompted operations of the Model Gateway   *)

\* what self.model.generate(...) does in one invocation: it raises, or it
\* returns a text
Throws        == [throws |-> TRUE, text |-> << >>]
Returns(text) == [throws |-> FALSE, text |-> text]

\* the result of a Gateway operation: the string returned, whether an
\* exception reached the caller, and what was done with the model
Outcome(result, raised, events) ==
  [result |-> result, raised |-> raised, events |-> events]

\* an invocation that enters the context by hand and leaves it only after a
\* generate that returned
chat_session_generate_leaky(response) ==
  [events |-> IF response.throws THEN << "enter", "generate" >>
              ELSE << "enter", "generate", "exit" >>,
   throws |-> response.throws,
   text   |-> response.text]

\* with self.model.chat_session(): response = self.model.generate(...)
\* The with statement leaves the context when its body ends and when its
\* body raises.
chat_session_generate(response) ==
  [events |-> << "enter", "generate", "exit" >>,
   throws |-> response.throws,
   text   |-> response.text]

\* the body of the try block after the invocation: strip, cut the echoed
\* marker, fall back when nothing is left (llm.py:137-148, 178-189, 302-311)
clean_response(text, marker) ==
  LET stripped == strip(text)
  IN  IF contains(stripped, marker) THEN strip(after_last(stripped, marker))
      ELSE stripped

\* a prompted summarizer that returns whatever is left of the response
generate_ai_summary_unchecked(text, response) ==
  LET invocation == chat_session_generate(response)
  IN  IF invocation.throws
      THEN Outcome(generate_fallback_summary(text), FALSE, invocation.events)
      ELSE Outcome(clean_response(invocation.text, SUMMARY_MARKER), FALSE,
                   invocation.events)

\* LLMManager._generate_ai_summary
generate_ai_summary(text, response) ==
  LET invocation == chat_session_generate(response)
      summary    == clean_response(invocation.text, SUMMARY_MARKER)
  IN  IF invocation.throws
      THEN Outcome(generate_fallback_summary(text), FALSE, invocation.events)
      ELSE IF summary = << >>
      THEN Outcome(generate_fallback_summary(text), FALSE, invocation.events)
      ELSE Outcome(summary, FALSE, invocation.events)

\* LLMManager._generate_ai_detailed_notes
generate_ai_detailed_notes(text, response) ==
  LET invocation     == chat_session_generate(response)
      detailed_notes == clean_response(invocation.text, DETAILED_MARKER)
  IN  IF invocation.throws
      THEN Outcome(generate_fallback_detailed_notes(text), FALSE, invocation.events)
      ELSE IF detailed_notes = << >>
      THEN Outcome(generate_fallback_detailed_notes(text), FALSE, invocation.events)
      ELSE Outcome(detailed_notes, FALSE, invocation.events)

\* LLMManager._generate_ai_enhanced_notes
generate_ai_enhanced_notes(text, context_type, response) ==
  LET invocation     == chat_session_generate(response)
      enhanced_notes == clean_response(invocation.text, ENHANCED_MARKER)
  IN  IF invocation.throws
      THEN Outcome(generate_fallback_enhanced_notes(text, context_type), FALSE,
                   invocation.events)
      ELSE IF enhanced_notes = << >>
      THEN Outcome(generate_fallback_enhanced_notes(text, context_type), FALSE,
                   invocation.events)
      ELSE Outcome(enhanced_notes, FALSE, invocation.events)

\* self.model is None, or the object GPT4All(model_path) returned
NoModel           == [loaded |-> FALSE, path |-> << >>]
LoadedModel(path) == [loaded |-> TRUE, path |-> path]

\* if self.model and GPT4ALL_AVAILABLE
use_model(self_model, available) == self_model.loaded /\ available

\* a summarizer that tests the text without trimming it
generate_summary_untrimmed(self_model, available, text, response) ==
  IF text = << >> THEN Outcome(NO_NOTES_PROVIDED, FALSE, << >>)
  ELSE IF use_model(self_model, available) THEN generate_ai_summary(text, response)
  ELSE Outcome(generate_fallback_summary(text), FALSE, << >>)

\* LLMManager.generate_summary
generate_summary(self_model, available, text, response) ==
  IF strip(text) = << >> THEN Outcome(NO_NOTES_PROVIDED, FALSE, << >>)
  ELSE IF use_model(self_model, available) THEN generate_ai_summary(text, response)
  ELSE Outcome(generate_fallback_summary(text), FALSE, << >>)

\* LLMManager.generate_detailed_notes
generate_detailed_notes(self_model, available, text, response) ==
  IF strip(text) = << >> THEN Outcome(NO_NOTES_TO_EXPAND, FALSE, << >>)
  ELSE IF use_model(self_model, available) THEN generate_ai_detailed_notes(text, response)
  ELSE Outcome(generate_fallback_detailed_notes(text), FALSE, << >>)

\* LLMManager.enhance_notes_with_context
enhance_notes_with_context(self_model, available, text, context_type, response) ==
  IF strip(text) = << >> THEN Outcome(NO_NOTES_TO_ENHANCE, FALSE, << >>)
  ELSE IF use_model(self_model, available)
  THEN generate_ai_enhanced_notes(text, context_type, response)
  ELSE Outcome(generate_fallback_enhanced_notes(text, context_type), FALSE, << >>)

---------------------------------------------------------------------------
(* Discovery of the model artifact                                         *)

UPPER == << "A", "B", "C", "D", "E", "F", "G", "H", "I", "J", "K", "L", "M",
            "N", "O", "P", "Q", "R", "S", "T", "U", "V", "W", "X", "Y", "Z" >>
LOWER == << "a", "b", "c", "d", "e", "f", "g", "h", "i", "j", "k", "l", "m",
            "n", "o", "p", "q", "r", "s", "t", "u", "v", "w", "x", "y", "z" >>

\* str.lower()
lower(s) ==
  [i \in 1..Len(s) |->
     IF \E k \in 1..Len(UPPER) : UPPER[k] = s[i]
     THEN LOWER[CHOOSE k \in 1..Len(UPPER) : UPPER[k] = s[i]]
     ELSE s[i]]

\* str.endswith(suffix)
endswith(s, suffix) ==
  /\ Len(s) >= Len(suffix)
  /\ SubSeq(s, Len(s) - Len(suffix) + 1, Len(s)) = suffix

GGUF == << ".", "g", "g", "u", "f" >>

\* [f for f in os.listdir(self.models_dir) if f.endswith('.gguf')]
RECURSIVE gguf_files(_)
gguf_files(files) ==
  IF files = << >> THEN << >>
  ELSE (IF endswith(files[1], GGUF) THEN << files[1] >> ELSE << >>)
       \o gguf_files(Tail(files))

\* the models/ directory: absent, or present with a listing; listable is
\* FALSE when os.listdir raises on it (a plain file of that name, no permission)
NoDirectory       == [exists |-> FALSE, listable |-> FALSE, files |-> << >>]
Directory(files)  == [exists |-> TRUE, listable |-> TRUE, files |-> files]
NotADirectory     == [exists |-> TRUE, listable |-> FALSE, files |-> << >>]

\* the model_name argument when none is given
NoName == << >>

\* LLMManager._find_model_file: found is FALSE for None; raised is TRUE when
\* os.listdir raises
find_model_file(dir, model_name) ==
  LET model_files == gguf_files(dir.files)
      matching    == {k \in 1..Len(model_files) :
                        contains(lower(model_files[k]), lower(model_name))}
      first_match == CHOOSE k \in matching : \A j \in matching : k <= j
      none        == [raised |-> FALSE, found |-> FALSE, path |-> << >>]
  IN  IF ~dir.exists THEN none
      ELSE IF ~dir.listable THEN [raised |-> TRUE, found |-> FALSE, path |-> << >>]
      ELSE IF model_files = << >> THEN none
      ELSE IF model_name # NoName /\ matching # {}
      THEN [raised |-> FALSE, found |-> TRUE, path |-> model_files[first_match]]
      ELSE [raised |-> FALSE, found |-> TRUE, path |-> model_files[1]]

\* LLMManager._load_model, called by __init__ with self.model = None.
\* load_throws: whether GPT4All(model_path, allow_download=False) raises.
load_model(available, dir, model_name, load_throws) ==
  LET located == find_model_file(dir, model_name)
      skipped == [raised |-> FALSE, model |-> NoModel, attempts |-> 0]
  IN  IF ~available THEN skipped
      ELSE IF located.raised THEN [raised |-> TRUE, model |-> NoModel, attempts |-> 0]
      ELSE IF ~located.found THEN skipped
      ELSE IF load_throws THEN [raised |-> FALSE, model |-> NoModel, attempts |-> 1]
      ELSE [raised |-> FALSE, model |-> LoadedModel(located.path), attempts |-> 1]

---------------------------------------------------------------------------
(* The Report Emitter: ReportGenerator.generate_detailed_report            *)

\* reporter.py:248: '-detailed.md'
DETAILED_MD ==
  << "-", "d", "e", "t", "a", "i", "l", "e", "d", ".", "m", "d" >>

\* reporter.py:404: '-detailed.pdf'
DETAILED_PDF ==
  << "-", "d", "e", "t", "a", "i", "l", "e", "d", ".", "p", "d", "f" >>

\* reporter.py:126, 143: 'images/'
IMAGES_SLASH ==
  << "i", "m", "a", "g", "e", "s", "/" >>

\* reporter.py:136: 'image_'
IMAGE_UNDERSCORE ==
  << "i", "m", "a", "g", "e", "_" >>

\* the value None of a path
NoPath == << >>

\* the index of the last occurrence of c in s, 0 when there is none (str.rfind + 1)
rfind(s, c) ==
  LET at == {i \in 1..Len(s) : s[i] = c}
  IN  IF at = {} THEN 0 ELSE CHOOSE i \in at : \A k \in at : k <= i

\* os.path.basename(path)
basename(path) == SubSeq(path, rfind(path, "/") + 1, Len(path))

\* os.path.splitext(path)[1]: from the last dot of the last component on,
\* unless that component has only leading dots before it
splitext_ext(path) ==
  LET sep == rfind(path, "/")
      dot == rfind(path, ".")
  IN  IF dot > sep /\ \E k \in (sep + 1)..(dot - 1) : path[k] # "."
      THEN SubSeq(path, dot, Len(path))
      ELSE << >>

\* f"{n:02d}"
two_digits(n) == IF n < 10 THEN << "0" >> \o str(n) ELSE str(n)

\* a write that leaves the file of an earlier emission next to the new one
write_file_beside(files, path, content) ==
  files \cup {[path |-> path, content |-> content]}

\* the file system under reports/: a set of files, one per path
write_file(files, path, content) ==
  {f \in files : f.path # path} \cup {[path |-> path, content |-> content]}

\* a copy loop that gives up at the first image it cannot copy
RECURSIVE copy_images_until_failure(_, _, _, _, _)
copy_images_until_failure(files, image_paths, filename, unreadable, i) ==
  IF i > Len(image_paths) \/ image_paths[i] \in unreadable
  THEN [files |-> files, copied_images |-> << >>]
  ELSE LET image_path    == image_paths[i]
           new_filename  == IMAGE_UNDERSCORE \o two_digits(i) \o splitext_ext(image_path)
           relative_path == IMAGES_SLASH \o filename \o << "/" >> \o new_filename
           copied        == write_file(files, relative_path,
                                       [kind |-> "image", copy_of |-> image_path])
           rest          == copy_images_until_failure(copied, image_paths, filename,
                                                      unreadable, i + 1)
           entry         == [original_path |-> image_path,
                             relative_path |-> relative_path,
                             filename      |-> new_filename,
                             original_name |-> basename(image_path)]
       IN  [files |-> rest.files, copied_images |-> << entry >> \o rest.copied_images]

\* a copy loop that numbers the images it has copied, not the ones it was given
RECURSIVE copy_images_renumbered(_, _, _, _, _)
copy_images_renumbered(files, image_paths, filename, unreadable, i) ==
  IF image_paths = << >> THEN [files |-> files, copied_images |-> << >>]
  ELSE IF image_paths[1] \in unreadable
  THEN copy_images_renumbered(files, Tail(image_paths), filename, unreadable, i)
  ELSE LET image_path    == image_paths[1]
           new_filename  == IMAGE_UNDERSCORE \o two_digits(i) \o splitext_ext(image_path)
           relative_path == IMAGES_SLASH \o filename \o << "/" >> \o new_filename
           copied        == write_file(files, relative_path,
                                       [kind |-> "image", copy_of |-> image_path])
           rest          == copy_images_renumbered(copied, Tail(image_paths), filename,
                                                   unreadable, i + 1)
           entry         == [original_path |-> image_path,
                             relative_path |-> relative_path,
                             filename      |-> new_filename,
                             original_name |-> basename(image_path)]
       IN  [files |-> rest.files, copied_images |-> << entry >> \o rest.copied_images]

\* ReportGenerator._copy_images_to_reports: the loop over enumerate(image_paths)
\* from index i on; unreadable are the source paths shutil.copy2 raises on
RECURSIVE copy_images_from(_, _, _, _, _)
copy_images_from(files, image_paths, filename, unreadable, i) ==
  IF i > Len(image_paths) THEN [files |-> files, copied_images |-> << >>]
  ELSE LET image_path    == image_paths[i]
           new_filename  == IMAGE_UNDERSCORE \o two_digits(i) \o splitext_ext(image_path)
           relative_path == IMAGES_SLASH \o filename \o << "/" >> \o new_filename
           failed        == image_path \in unreadable
           copied        == IF failed THEN files
                            ELSE write_file(files, relative_path,
                                            [kind |-> "image", copy_of |-> image_path])
           rest          == copy_images_from(copied, image_paths, filename, unreadable,
                                             i + 1)
           entry         == [original_path |-> image_path,
                             relative_path |-> relative_path,
                             filename      |-> new_filename,
                             original_name |-> basename(image_path)]
       IN  [files |-> rest.files,
            copied_images |-> (IF failed THEN << >> ELSE << entry >>)
                              \o rest.copied_images]

copy_images_to_reports(files, image_paths, filename, unreadable) ==
  copy_images_from(files, image_paths, filename, unreadable, 1)

\* ReportGenerator._format_notes_for_markdown
format_notes_for_markdown(notes) ==
  LET lines == split(strip(notes), "\n")
      formatted(raw) ==
        LET line == strip(raw)
        IN  IF line = << >> THEN << >>
            ELSE IF line[1] \in {BULLET, "-", "*"}
            THEN IF Len(line) >= 2 /\ line[1] = "-" /\ line[2] = " "
                 THEN line
                 ELSE << "-", " " >> \o strip(Tail(line))
            ELSE << "-", " " >> \o line
  IN  join([k \in 1..Len(lines) |-> formatted(lines[k])], << "\n" >>)

\* ReportGenerator._generate_detailed_markdown_report; write_fails: whether
\* open() or write() raises, which the method logs and raises again
generate_detailed_markdown_report(files, original_notes, detailed_notes, images, summary, filename, write_fails) ==
  LET markdown_path == filename \o DETAILED_MD
      content == [kind |-> "markdown",
                  original_notes |-> format_notes_for_markdown(original_notes),
                  detailed_notes |-> detailed_notes, images |-> images,
                  summary |-> summary]
  IN  IF write_fails THEN [raised |-> TRUE, files |-> files, path |-> NoPath]
      ELSE [raised |-> FALSE, files |-> write_file(files, markdown_path, content),
            path |-> markdown_path]

\* ReportGenerator._generate_detailed_pdf_report; build_fails: whether building
\* the document raises, which the method logs and raises again
generate_detailed_pdf_report(files, original_notes, detailed_notes, images, summary, filename, reportlab_available, build_fails) ==
  LET pdf_path == filename \o DETAILED_PDF
      content == [kind |-> "pdf", original_notes |-> original_notes,
                  detailed_notes |-> detailed_notes, images |-> images,
                  summary |-> summary]
  IN  IF ~reportlab_available THEN [raised |-> FALSE, files |-> files, path |-> NoPath]
      ELSE IF build_fails THEN [raised |-> TRUE, files |-> files, path |-> NoPath]
      ELSE [raised |-> FALSE, files |-> write_file(files, pdf_path, content),
            path |-> pdf_path]

\* ReportGenerator.generate_detailed_report
generate_detailed_report(files, original_notes, detailed_notes, images, summary, filename, reportlab_available, faults) ==
  LET copy == copy_images_to_reports(files, images, filename, faults.unreadable)
      md   == generate_detailed_markdown_report(copy.files, original_notes,
                detailed_notes, copy.copied_images, summary, filename,
                faults.write_fails)
      pdf  == generate_detailed_pdf_report(md.files, original_notes, detailed_notes,
                copy.copied_images, summary, filename, reportlab_available,
                faults.build_fails)
  IN  IF md.raised
      THEN [raised |-> TRUE, files |-> md.files, markdown_path |-> NoPath,
            pdf_path |-> NoPath]
      ELSE IF pdf.raised
      THEN [raised |-> TRUE, files |-> pdf.files, markdown_path |-> NoPath,
            pdf_path |-> NoPath]
      ELSE [raised |-> FALSE, files |-> pdf.files, markdown_path |-> md.path,
            pdf_path |-> pdf.path]

\* ReportGenerator._generate_markdown_report: f"{filename}.md" (reporter.py:196)
generate_markdown_report(files, notes, images, summary, filename, write_fails) ==
  LET markdown_path == filename \o << ".", "m", "d" >>
      content == [kind |-> "markdown", notes |-> format_notes_for_markdown(notes),
                  images |-> images,
                  summary |-> summary]
  IN  IF write_fails THEN [raised |-> TRUE, files |-> files, path |-> NoPath]
      ELSE [raised |-> FALSE, files |-> write_file(files, markdown_path, content),
            path |-> markdown_path]

\* ReportGenerator._generate_pdf_report: f"{filename}.pdf" (reporter.py:266)
generate_pdf_report(files, notes, images, summary, filename, reportlab_available, build_fails) ==
  LET pdf_path == filename \o << ".", "p", "d", "f" >>
      content == [kind |-> "pdf", notes |-> notes, images |-> images,
                  summary |-> summary]
  IN  IF ~reportlab_available THEN [raised |-> FALSE, files |-> files, path |-> NoPath]
      ELSE IF build_fails THEN [raised |-> TRUE, files |-> files, path |-> NoPath]
      ELSE [raised |-> FALSE, files |-> write_file(files, pdf_path, content),
            path |-> pdf_path]

\* ReportGenerator.generate_report
generate_report(files, notes, images, summary, filename, reportlab_available, faults) ==
  LET copy == copy_images_to_reports(files, images, filename, faults.unreadable)
      md   == generate_markdown_report(copy.files, notes, copy.copied_images, summary,
                                       filename, faults.write_fails)
      pdf  == generate_pdf_report(md.files, notes, copy.copied_images, summary,
                                  filename, reportlab_available, faults.build_fails)
  IN  IF md.raised
      THEN [raised |-> TRUE, files |-> md.files, markdown_path |-> NoPath,
            pdf_path |-> NoPath]
      ELSE IF pdf.raised
      THEN [raised |-> TRUE, files |-> pdf.files, markdown_path |-> NoPath,
            pdf_path |-> NoPath]
      ELSE [raised |-> FALSE, files |-> pdf.files, markdown_path |-> md.path,
            pdf_path |-> pdf.path]

---------------------------------------------------------------------------
(* Inputs of the model                                                     *)

\* 'notes.txt': a file of the models/ directory that is no model artifact
NOTES_TXT ==
  << "n", "o", "t", "e", "s", ".", "t", "x", "t" >>

\* 'orca.gguf': a model artifact
ORCA_GGUF ==
  << "o", "r", "c", "a", ".", "g", "g", "u", "f" >>

\* 'Mistral-7B.gguf': a second model artifact, named with capitals
MISTRAL_GGUF ==
  << "M", "i", "s", "t", "r", "a", "l", "-", "7", "B", ".", "g", "g", "u", "f" >>

\* 'mistral': a model_name that matches one artifact
MISTRAL_HINT ==
  << "m", "i", "s", "t", "r", "a", "l" >>

\* 'llama': a model_name that matches no artifact
LLAMA_HINT ==
  << "l", "l", "a", "m", "a" >>

\* the states of the models/ directory at start-up
ModelsDirs ==
  { NoDirectory, NotADirectory, Directory(<< NOTES_TXT >>),
    Directory(<< NOTES_TXT, ORCA_GGUF, MISTRAL_GGUF >>) }

ModelNames == { NoName, MISTRAL_HINT, LLAMA_HINT }

\* the characters of the texts handed to the Gateway
Alphabet == { "a", " ", "\n", ".", "-" }

\* every string over A of length at most n
RECURSIVE Strings(_, _)
Strings(A, n) ==
  IF n = 0 THEN { << >> }
  ELSE LET shorter == Strings(A, n - 1)
       IN  shorter \cup { Append(s, c) : s \in shorter, c \in A }

Texts == Strings(Alphabet, MaxTextLen)

\* notes of three sentences, of three, two and two words:
\* 'Met the team. Reviewed code. Went home.'
MET_REVIEWED_WENT ==
  << "M", "e", "t", " ", "t", "h", "e", " ", "t", "e", "a", "m", ".", " ", "R", "e", "v", "i",
     "e", "w", "e", "d", " ", "c", "o", "d", "e", ".", " ", "W", "e", "n", "t", " ", "h", "o",
     "m", "e", "." >>

\* notes of one sentence without its period: 'Fixed the bug'
FIXED_THE_BUG ==
  << "F", "i", "x", "e", "d", " ", "t", "h", "e", " ", "b", "u", "g" >>

\* the texts a caller passes besides the short ones: the two above,
\* 'a b c. d. e f g. h i j. k. l. m n o.' (seven sentences; the first, third
\* and fourth have three words) and 'a. b. c. d. e. f g h.' (six sentences;
\* only the sixth has three words)
Examples ==
  { MET_REVIEWED_WENT, FIXED_THE_BUG,
      << "a", " ", "b", " ", "c", ".", " ", "d", ".", " ", "e", " ", "f", " ", "g", ".", " ",
         "h", " ", "i", " ", "j", ".", " ", "k", ".", " ", "l", ".", " ", "m", " ", "n", " ",
         "o", "." >>,
      << "a", ".", " ", "b", ".", " ", "c", ".", " ", "d", ".", " ", "e", ".", " ", "f", " ",
         "g", " ", "h", "." >> }

\* what one invocation of the model can do, for an operation whose prompt
\* ends in marker: raise, or return nothing, whitespace, a text, the echoed
\* marker alone or around a text
Responses(marker) ==
  { Throws,
    Returns(<< >>),
    Returns(<< " ", "\n" >>),
    Returns(<< " ", "o", "k", ".", "\n" >>),
    Returns(marker),
    Returns(marker \o << " ", "o", "k" >>),
    Returns(<< "o", "k", " " >> \o marker \o << "\n" >>) }

\* what an invocation made by a background thread can do: raise, or return a
\* text behind the echoed marker
WorkerResponses(marker) ==
  { Throws, Returns(marker \o << " ", "o", "k" >>) }

ContextTypes == { "professional", "personal", "technical", "casual" }

---------------------------------------------------------------------------
(* The interface: literals of ui.py and what a user enters                 *)

\* ui.py:143-150: 'Enter your daily notes here...\n\nExamples:\n<bullet> Met with the development team to discuss project timeline\n<bullet> Completed code review for the new feature\n<bullet> Attended client presentation meeting\n<bullet> Fixed critical bug in the payment system'
placeholder_text ==
  << "E", "n", "t", "e", "r", " ", "y", "o", "u", "r", " ", "d", "a", "i", "l", "y", " ", "n",
     "o", "t", "e", "s", " ", "h", "e", "r", "e", ".", ".", ".", "\n", "\n", "E", "x", "a",
     "m", "p", "l", "e", "s", ":", "\n", BULLET, " ", "M", "e", "t", " ", "w", "i", "t", "h",
     " ", "t", "h", "e", " ", "d", "e", "v", "e", "l", "o", "p", "m", "e", "n", "t", " ", "t",
     "e", "a", "m", " ", "t", "o", " ", "d", "i", "s", "c", "u", "s", "s", " ", "p", "r", "o",
     "j", "e", "c", "t", " ", "t", "i", "m", "e", "l", "i", "n", "e", "\n", BULLET, " ", "C",
     "o", "m", "p", "l", "e", "t", "e", "d", " ", "c", "o", "d", "e", " ", "r", "e", "v", "i",
     "e", "w", " ", "f", "o", "r", " ", "t", "h", "e", " ", "n", "e", "w", " ", "f", "e", "a",
     "t", "u", "r", "e", "\n", BULLET, " ", "A", "t", "t", "e", "n", "d", "e", "d", " ", "c",
     "l", "i", "e", "n", "t", " ", "p", "r", "e", "s", "e", "n", "t", "a", "t", "i", "o", "n",
     " ", "m", "e", "e", "t", "i", "n", "g", "\n", BULLET, " ", "F", "i", "x", "e", "d", " ",
     "c", "r", "i", "t", "i", "c", "a", "l", " ", "b", "u", "g", " ", "i", "n", " ", "t", "h",
     "e", " ", "p", "a", "y", "m", "e", "n", "t", " ", "s", "y", "s", "t", "e", "m" >>

\* ui.py:244, 367: 'Enter your daily notes here...'
ENTER_YOUR_NOTES ==
  << "E", "n", "t", "e", "r", " ", "y", "o", "u", "r", " ", "d", "a", "i", "l", "y", " ", "n",
     "o", "t", "e", "s", " ", "h", "e", "r", "e", ".", ".", "." >>

\* ui.py:249-251, f"daily-log-{today}" on one day: 'daily-log-2026-11-04'
DAILY_LOG_TODAY ==
  << "d", "a", "i", "l", "y", "-", "l", "o", "g", "-", "2", "0", "2", "6", "-", "1", "1", "-",
     "0", "4" >>

\* notes a user types: 'Call client'
CALL_CLIENT ==
  << "C", "a", "l", "l", " ", "c", "l", "i", "e", "n", "t" >>

\* a line of five words: 'Met the team at noon'
MET_THE_TEAM_AT_NOON ==
  << "M", "e", "t", " ", "t", "h", "e", " ", "t", "e", "a", "m", " ", "a", "t", " ", "n", "o",
     "o", "n" >>

\* the notes a caller passes to the expander and to the enhancer besides the
\* short ones: a line
\* of two words, a line of five, and the two as a bulleted list
Activities ==
  { CALL_CLIENT, MET_THE_TEAM_AT_NOON,
    << BULLET, " " >> \o CALL_CLIENT \o << "\n", "-", " " >> \o MET_THE_TEAM_AT_NOON }

\* an image file a user picks: '/home/u/photo.png'
PHOTO_PNG ==
  << "/", "h", "o", "m", "e", "/", "u", "/", "p", "h", "o", "t", "o", ".", "p", "n", "g" >>

\* what a user leaves in the notes field after editing it
NotesTyped == { CALL_CLIENT }

\* what a user leaves in the report name field after editing it
NamesTyped == { << >>, DAILY_LOG_TODAY }

\* another image file a user picks: '/home/u/scan.jpg'
SCAN_JPG ==
  << "/", "h", "o", "m", "e", "/", "u", "/", "s", "c", "a", "n", ".", "j", "p", "g" >>

\* the files a user can pick in the image dialog during a session that
\* generates a report
ImagePaths == { PHOTO_PNG }

\* the selections the image dialog returns: empty when cancelled
RECURSIVE Selections(_)
Selections(paths) ==
  IF paths = {} THEN { << >> }
  ELSE { << >> } \cup UNION { { << p >> \o rest : rest \in Selections(paths \ {p}) } : p \in paths }

\* what can go wrong on disk during one emission
Faults ==
  [unreadable : SUBSET ImagePaths, write_fails : BOOLEAN, build_fails : BOOLEAN]

---------------------------------------------------------------------------
(* State                                                                   *)

VARIABLES
  GPT4ALL_AVAILABLE,   \* llm.py:13-17: whether the gpt4all import succeeds
  REPORTLAB_AVAILABLE, \* reporter.py:24-33: whether the reportlab imports succeed
  models_dir,          \* the models/ directory on disk
  llm,                 \* the LLMManager: "unconstructed", "constructed", or
                       \* "raised" when __init__ let an exception out
  model,               \* LLMManager.model
  load_attempts,       \* how often GPT4All(model_path) was called
  load_failed,         \* whether that call raised (llm.py:70-72)
  open_contexts,       \* chat sessions entered and not yet left
  call,                \* the Gateway operation a caller has made, with its outcome
  info,                \* the answer to the caller's availability query
  main_pc,             \* the process: "start", "import_error", "imported",
                       \* "running" (inside app.run()), "exit_1"
  dialog,              \* the error dialog main() has shown, "none" if none
  notes_text,          \* the content of the notes field
  filename_entry,      \* the content of the report name field
  uploaded_images,     \* DocumentationApp.uploaded_images
  generate_button,     \* state of the trigger control: "normal" or "disabled"
  timers,              \* pending root.after(5000, ...) callbacks
  progress_var,        \* the status text
  progress_bar,        \* "stopped" or "running"
  status_thread,       \* the thread that ran the last statement on the status
                       \* text (ui.py:230, 399)
  clicks,              \* generate actions so far
  workers,             \* the background threads started, in order
  files,               \* the files under reports/
  emission             \* the last call a caller made to the ReportGenerator
                       \* itself, with what it returned

gatewayVars ==
  << GPT4ALL_AVAILABLE, models_dir, llm, model, load_attempts, load_failed,
     open_contexts, call, info >>

appVars ==
  << REPORTLAB_AVAILABLE, main_pc, dialog, notes_text, filename_entry,
     uploaded_images, generate_button, timers, progress_var, progress_bar,
     status_thread, clicks, workers, files, emission >>

vars == << gatewayVars, appVars >>

\* the threads of the process
MainThread == << "MainThread", 0 >>
Thread(k)  == << "Thread", k >>

NoResponse == Returns(<< >>)
NoCall ==
  [op |-> "none", text |-> << >>, context_type |-> "none",
   response |-> NoResponse, outcome |-> Outcome(<< >>, FALSE, << >>)]
NoEmission ==
  [op |-> "none", n |-> 0, notes |-> << >>, images |-> << >>, filename |-> << >>,
   faults |-> [unreadable |-> {}, write_fails |-> FALSE, build_fails |-> FALSE],
   raised |-> FALSE, markdown_path |-> << >>, pdf_path |-> << >>]
NoInfo ==
  [query |-> "none", available |-> FALSE, status |-> "none", model_path |-> << >>]

Init ==
  /\ GPT4ALL_AVAILABLE \in BOOLEAN
  /\ REPORTLAB_AVAILABLE \in BOOLEAN
  /\ models_dir \in ModelsDirs
  /\ llm = "unconstructed"
  /\ model = NoModel
  /\ load_attempts = 0
  /\ load_failed = FALSE
  /\ open_contexts = 0
  /\ call = NoCall
  /\ info = NoInfo
  /\ main_pc = "start"
  /\ dialog = "none"
  /\ notes_text = << >>
  /\ filename_entry = << >>
  /\ uploaded_images = << >>
  /\ generate_button = "normal"
  /\ timers = 0
  /\ progress_var = "none"
  /\ progress_bar = "stopped"
  /\ status_thread = MainThread
  /\ clicks = 0
  /\ workers = << >>
  /\ files = {}
  /\ emission = NoEmission

---------------------------------------------------------------------------
(* The Model Gateway as its callers see it                                 *)

\* LLMManager.__init__(model_name)
Construct ==
  /\ main_pc = "start"
  /\ llm = "unconstructed"
  /\ \E model_name \in ModelNames, load_throws \in BOOLEAN :
       LET loaded == load_model(GPT4ALL_AVAILABLE, models_dir, model_name, load_throws)
       IN  /\ llm' = IF loaded.raised THEN "raised" ELSE "constructed"
           /\ model' = loaded.model
           /\ load_attempts' = load_attempts + loaded.attempts
           /\ load_failed' = (loaded.attempts = 1 /\ ~loaded.model.loaded)
  /\ UNCHANGED << GPT4ALL_AVAILABLE, models_dir, open_contexts, call, info, appVars >>

\* the number of contexts an operation entered and did not leave
left_open(events) ==
  Cardinality({k \in 1..Len(events) : events[k] = "enter"})
  - Cardinality({k \in 1..Len(events) : events[k] = "exit"})

\* a caller's call of one operation: the whole method runs, the caller holds
\* its outcome until Return
Called(op, text, context_type, response, outcome) ==
  /\ call' = [op |-> op, text |-> text, context_type |-> context_type,
              response |-> IF outcome.events = << >> THEN NoResponse ELSE response,
              outcome |-> outcome]
  /\ open_contexts' = open_contexts + left_open(outcome.events)
  /\ UNCHANGED << GPT4ALL_AVAILABLE, models_dir, llm, model, load_attempts,
                  load_failed, info, appVars >>

Idle == main_pc = "start" /\ llm = "constructed" /\ call = NoCall /\ info = NoInfo

\* LLMManager.generate_summary(text)
Summarize ==
  /\ Idle
  /\ \E text \in Texts \cup Examples, response \in Responses(SUMMARY_MARKER) :
       Called("generate_summary", text, "none", response,
              generate_summary(model, GPT4ALL_AVAILABLE, text, response))

\* LLMManager.generate_detailed_notes(text)
ExpandToDetailed ==
  /\ Idle
  /\ \E text \in Texts \cup Activities, response \in Responses(DETAILED_MARKER) :
       Called("generate_detailed_notes", text, "none", response,
              generate_detailed_notes(model, GPT4ALL_AVAILABLE, text, response))

\* LLMManager.enhance_notes_with_context(text, context_type)
EnhanceWithContext ==
  /\ Idle
  /\ \E text \in Texts \cup Activities, context_type \in ContextTypes,
        response \in Responses(ENHANCED_MARKER) :
       Called("enhance_notes_with_context", text, context_type, response,
              enhance_notes_with_context(model, GPT4ALL_AVAILABLE, text, context_type,
                                         response))

\* LLMManager.is_model_available()
is_model_available(self_model, available) == self_model.loaded /\ available

IsModelAvailable ==
  /\ Idle
  /\ info' = [query |-> "is_model_available",
              available |-> is_model_available(model, GPT4ALL_AVAILABLE),
              status |-> "none", model_path |-> << >>]
  /\ UNCHANGED << GPT4ALL_AVAILABLE, models_dir, llm, model, load_attempts,
                  load_failed, open_contexts, call, appVars >>

\* a status query that loads the artifact it finds
GetModelInfo_reloading ==
  /\ Idle
  /\ LET located == find_model_file(models_dir, NoName)
     IN  /\ model' = IF located.found THEN LoadedModel(located.path) ELSE model
         /\ load_attempts' = IF located.found THEN load_attempts + 1 ELSE load_attempts
         /\ info' = [query |-> "get_model_info", available |-> GPT4ALL_AVAILABLE,
                     status |-> IF located.found THEN "Model loaded"
                                ELSE "No model loaded",
                     model_path |-> located.path]
  /\ UNCHANGED << GPT4ALL_AVAILABLE, models_dir, llm, load_failed, open_contexts,
                  call, appVars >>

\* LLMManager.get_model_info()
GetModelInfo ==
  /\ Idle
  /\ info' = IF ~is_model_available(model, GPT4ALL_AVAILABLE)
             THEN [query |-> "get_model_info", available |-> GPT4ALL_AVAILABLE,
                   status |-> "No model loaded", model_path |-> << >>]
             ELSE [query |-> "get_model_info", available |-> GPT4ALL_AVAILABLE,
                   status |-> "Model loaded",
                   model_path |-> find_model_file(models_dir, NoName).path]
  /\ UNCHANGED << GPT4ALL_AVAILABLE, models_dir, llm, model, load_attempts,
                  load_failed, open_contexts, call, appVars >>

\* the caller takes the result and goes on
Return ==
  /\ llm = "constructed"
  /\ call # NoCall \/ info # NoInfo
  /\ call' = NoCall
  /\ info' = NoInfo
  /\ UNCHANGED << GPT4ALL_AVAILABLE, models_dir, llm, model, load_attempts,
                  load_failed, open_contexts, appVars >>

NextGateway ==
  \/ Construct
  \/ Summarize
  \/ ExpandToDetailed
  \/ EnhanceWithContext
  \/ IsModelAvailable
  \/ GetModelInfo
  \/ Return

\* the Model Gateway alone, called with every text
SpecGateway == Init /\ [][NextGateway]_vars

---------------------------------------------------------------------------
(* Start-up: main.py                                                       *)

\* the imports of main.py:17-19; reporter.py:11 imports reportlab outside
\* any try, so the process ends there when reportlab cannot be imported
import_modules ==
  /\ main_pc = "start"
  /\ llm = "unconstructed"
  /\ main_pc' = IF REPORTLAB_AVAILABLE THEN "imported" ELSE "import_error"
  /\ UNCHANGED << gatewayVars, REPORTLAB_AVAILABLE, dialog, notes_text,
                  filename_entry, uploaded_images, generate_button, timers,
                  progress_var, progress_bar, status_thread, clicks, workers, files, emission >>

\* check_dependencies(): ok is its return value, dir the models/ directory
\* it leaves behind
check_dependencies(dir) ==
  LET made == IF dir.exists THEN dir ELSE Directory(<< >>)
  IN  IF ~made.listable THEN [ok |-> FALSE, dir |-> made]
      ELSE IF gguf_files(made.files) = << >> THEN [ok |-> FALSE, dir |-> made]
      ELSE [ok |-> TRUE, dir |-> made]

\* main() up to the call of app.run(): the dependency check, LLMManager(),
\* ReportGenerator() and DocumentationApp(...), which builds the window
main ==
  /\ main_pc = "imported"
  /\ LET checked == check_dependencies(models_dir)
     IN  /\ models_dir' = checked.dir
         /\ IF ~checked.ok
            THEN /\ main_pc' = "exit_1"
                 /\ dialog' = "Missing Dependencies"
                 /\ UNCHANGED << llm, model, load_attempts, load_failed, notes_text,
                                 filename_entry, progress_var >>
            ELSE \E load_throws \in BOOLEAN :
                   LET loaded == load_model(GPT4ALL_AVAILABLE, checked.dir, NoName,
                                            load_throws)
                   IN  /\ model' = loaded.model
                       /\ load_attempts' = load_attempts + loaded.attempts
                       /\ load_failed' = (loaded.attempts = 1 /\ ~loaded.model.loaded)
                       /\ IF loaded.raised
                          THEN /\ llm' = "raised"
                               /\ main_pc' = "exit_1"
                               /\ dialog' = "Application Error"
                               /\ UNCHANGED << notes_text, filename_entry, progress_var >>
                          ELSE /\ llm' = "constructed"
                               /\ main_pc' = "running"
                               /\ dialog' = "none"
                               /\ notes_text' = placeholder_text
                               /\ filename_entry' = DAILY_LOG_TODAY
                               /\ progress_var' = "Ready to generate detailed report"
  /\ UNCHANGED << GPT4ALL_AVAILABLE, REPORTLAB_AVAILABLE, open_contexts, call, info,
                  uploaded_images, generate_button, timers, progress_bar,
                  status_thread, clicks, workers, files, emission >>

---------------------------------------------------------------------------
(* The interface thread: the handlers of DocumentationApp                  *)

\* notes_text.get('1.0', tk.END): the content and the newline Tk appends
notes_text_get == notes_text \o << "\n" >>

\* DocumentationApp._clear_placeholder, bound to <FocusIn> of the notes field
clear_placeholder ==
  /\ main_pc = "running"
  /\ notes_text' = IF contains(notes_text_get, ENTER_YOUR_NOTES) THEN << >>
                   ELSE notes_text
  /\ UNCHANGED << gatewayVars, REPORTLAB_AVAILABLE, main_pc, dialog, filename_entry,
                  uploaded_images, generate_button, timers, progress_var,
                  progress_bar, status_thread, clicks, workers, files, emission >>

\* the user edits the notes field; the field has the focus by then, so the
\* placeholder is gone and the field holds what the user leaves in it
type_notes ==
  /\ main_pc = "running"
  /\ ~contains(notes_text_get, ENTER_YOUR_NOTES)
  /\ \E text \in NotesTyped : notes_text' = text
  /\ UNCHANGED << gatewayVars, REPORTLAB_AVAILABLE, main_pc, dialog, filename_entry,
                  uploaded_images, generate_button, timers, progress_var,
                  progress_bar, status_thread, clicks, workers, files, emission >>

\* the user edits the report name field
type_filename ==
  /\ main_pc = "running"
  /\ \E name \in NamesTyped : filename_entry' = name
  /\ UNCHANGED << gatewayVars, REPORTLAB_AVAILABLE, main_pc, dialog, notes_text,
                  uploaded_images, generate_button, timers, progress_var,
                  progress_bar, status_thread, clicks, workers, files, emission >>

\* for filename in filenames: append it unless it is in the list (ui.py:269-271)
RECURSIVE append_new(_, _)
append_new(images, filenames) ==
  IF filenames = << >> THEN images
  ELSE append_new(IF \E k \in 1..Len(images) : images[k] = filenames[1]
                  THEN images ELSE Append(images, filenames[1]),
                  Tail(filenames))

\* an upload that appends every file picked, in the list or not
upload_images_from_keeping_all(paths) ==
  /\ main_pc = "running"
  /\ \E filenames \in Selections(paths) :
       /\ Len(uploaded_images) + Len(filenames) <= 2 * Cardinality(paths)
       /\ uploaded_images' = uploaded_images \o filenames
  /\ UNCHANGED << gatewayVars, REPORTLAB_AVAILABLE, main_pc, dialog, notes_text,
                  filename_entry, generate_button, timers, progress_var,
                  progress_bar, status_thread, clicks, workers, files, emission >>

\* DocumentationApp._upload_images, the dialog showing the files paths
upload_images_from(paths) ==
  /\ main_pc = "running"
  /\ \E filenames \in Selections(paths) :
       uploaded_images' = IF filenames # << >> THEN append_new(uploaded_images, filenames)
                          ELSE uploaded_images
  /\ UNCHANGED << gatewayVars, REPORTLAB_AVAILABLE, main_pc, dialog, notes_text,
                  filename_entry, generate_button, timers, progress_var,
                  progress_bar, status_thread, clicks, workers, files, emission >>

upload_images == upload_images_from(ImagePaths)

\* DocumentationApp._clear_images
clear_images ==
  /\ main_pc = "running"
  /\ uploaded_images' = << >>
  /\ UNCHANGED << gatewayVars, REPORTLAB_AVAILABLE, main_pc, dialog, notes_text,
                  filename_entry, generate_button, timers, progress_var,
                  progress_bar, status_thread, clicks, workers, files, emission >>

\* list.pop(index), index counted from 0
pop(list, index) ==
  SubSeq(list, 1, index) \o SubSeq(list, index + 2, Len(list))

\* the list after _remove_image(index)
remove_at(images, index) ==
  IF 0 <= index /\ index < Len(images) THEN pop(images, index) ELSE images

\* DocumentationApp._remove_image(index), from the remove button of thumbnail
\* index, or with an index that no thumbnail has
remove_image ==
  /\ main_pc = "running"
  /\ \E index \in -1..Len(uploaded_images) :
       uploaded_images' = remove_at(uploaded_images, index)
  /\ UNCHANGED << gatewayVars, REPORTLAB_AVAILABLE, main_pc, dialog, notes_text,
                  filename_entry, generate_button, timers, progress_var,
                  progress_bar, status_thread, clicks, workers, files, emission >>

\* a thread made by threading.Thread(target=generate), before it runs;
\* reported lists what the except clause of generate() has called
NewWorker(thread) ==
  [thread |-> thread, pc |-> "started", notes |-> << >>, filename |-> << >>,
   detailed_notes |-> << >>, summary |-> << >>, error |-> "none",
   reported |-> << >>, log |-> << >>]

\* a generate action that starts its thread twice
start_two_threads(threads) ==
  threads \o << NewWorker(Thread(Len(threads) + 1)),
                NewWorker(Thread(Len(threads) + 2)) >>

\* thread = threading.Thread(target=generate, daemon=True); thread.start()
start_thread(threads) == Append(threads, NewWorker(Thread(Len(threads) + 1)))

\* DocumentationApp._generate_detailed_report_async, the command of the
\* generate button; a disabled button does not run its command
\* a generate action that a disabled button does not hold back
generate_detailed_report_async_unguarded ==
  /\ main_pc = "running"
  /\ clicks' = clicks + 1
  /\ generate_button' = "disabled"
  /\ workers' = start_thread(workers)
  /\ timers' = timers + 1
  /\ UNCHANGED << gatewayVars, REPORTLAB_AVAILABLE, main_pc, dialog, notes_text,
                  filename_entry, uploaded_images, progress_var, progress_bar,
                  status_thread, files, emission >>

generate_detailed_report_async ==
  /\ main_pc = "running"
  /\ generate_button = "normal"
  /\ clicks' = clicks + 1
  /\ generate_button' = "disabled"
  /\ workers' = start_thread(workers)
  /\ timers' = timers + 1
  /\ UNCHANGED << gatewayVars, REPORTLAB_AVAILABLE, main_pc, dialog, notes_text,
                  filename_entry, uploaded_images, progress_var, progress_bar,
                  status_thread, files, emission >>

\* a callback that enables the button only once every thread has ended
enable_generate_button_when_idle ==
  /\ main_pc = "running"
  /\ timers > 0
  /\ timers' = timers - 1
  /\ generate_button' = IF \A w \in 1..Len(workers) : workers[w].pc \in {"done", "failed"}
                        THEN "normal" ELSE generate_button
  /\ UNCHANGED << gatewayVars, REPORTLAB_AVAILABLE, main_pc, dialog, notes_text,
                  filename_entry, uploaded_images, progress_var, progress_bar,
                  status_thread, clicks, workers, files, emission >>

\* the callback of root.after(5000, ...): 5 seconds after the action
enable_generate_button ==
  /\ main_pc = "running"
  /\ timers > 0
  /\ timers' = timers - 1
  /\ generate_button' = "normal"
  /\ UNCHANGED << gatewayVars, REPORTLAB_AVAILABLE, main_pc, dialog, notes_text,
                  filename_entry, uploaded_images, progress_var, progress_bar,
                  status_thread, clicks, workers, files, emission >>

---------------------------------------------------------------------------
(* A background thread: generate() and _generate_detailed_report           *)

\* a status update that starts the progress bar and never stops it
set_progress_never_stops(thread, message, show_progress) ==
  /\ progress_var' = message
  /\ progress_bar' = IF show_progress THEN "running" ELSE progress_bar
  /\ status_thread' = thread

\* DocumentationApp._set_progress(message, show_progress), called by thread:
\* the statements run in the thread that calls
set_progress(thread, message, show_progress) ==
  /\ progress_var' = message
  /\ progress_bar' = IF show_progress THEN "running" ELSE "stopped"
  /\ status_thread' = thread

\* one call made by the pipeline, as the thread that made it saw it
Step(step, thread, args, result) ==
  [step |-> step, thread |-> thread, args |-> args, result |-> result]

ENTER_SOME_NOTES == "Please enter some notes before generating a detailed report."
ENTER_A_FILENAME == "Please enter a filename for the detailed report."
EMISSION_FAILED  == "the exception generate_detailed_report raised"

\* the calls of the except clause of generate() (ui.py:348-350)
EXCEPT_CLAUSE == << "logger.error", "_set_progress", "messagebox.showerror" >>

\* f"Error: {str(e)}" (ui.py:349)
error_status(error) ==
  IF error = ENTER_SOME_NOTES
  THEN "Error: Please enter some notes before generating a detailed report."
  ELSE IF error = ENTER_A_FILENAME
  THEN "Error: Please enter a filename for the detailed report."
  ELSE "Error: the exception generate_detailed_report raised"

\* a validation that lets an empty report name through
generate_start_any_filename(w) ==
  /\ workers[w].pc = "started"
  /\ LET notes    == strip(notes_text_get)
         filename == strip(filename_entry)
         error    == IF notes = << >> \/ notes = ENTER_YOUR_NOTES THEN ENTER_SOME_NOTES
                     ELSE "none"
     IN  /\ workers' = [workers EXCEPT ![w].notes = notes, ![w].filename = filename,
                                       ![w].error = error,
                                       ![w].reported = IF error = "none" THEN @
                                                       ELSE EXCEPT_CLAUSE,
                                       ![w].pc = IF error = "none" THEN "expand"
                                                 ELSE "failed"]
         /\ IF error = "none"
            THEN set_progress(workers[w].thread, "Generating detailed report...", TRUE)
            ELSE set_progress(workers[w].thread, error_status(error), FALSE)
  /\ UNCHANGED << gatewayVars, REPORTLAB_AVAILABLE, main_pc, dialog, notes_text,
                  filename_entry, uploaded_images, generate_button, timers, clicks,
                  files, emission >>

\* generate() up to the end of the validation in _generate_detailed_report
\* (ui.py:344, 363-371) and, when the validation raises, the except clause of
\* generate() (ui.py:347-350)
generate_start(w) ==
  /\ workers[w].pc = "started"
  /\ LET notes    == strip(notes_text_get)
         filename == strip(filename_entry)
         error    == IF notes = << >> \/ notes = ENTER_YOUR_NOTES THEN ENTER_SOME_NOTES
                     ELSE IF filename = << >> THEN ENTER_A_FILENAME
                     ELSE "none"
     IN  /\ workers' = [workers EXCEPT ![w].notes = notes, ![w].filename = filename,
                                       ![w].error = error,
                                       ![w].reported = IF error = "none" THEN @
                                                       ELSE EXCEPT_CLAUSE,
                                       ![w].pc = IF error = "none" THEN "expand"
                                                 ELSE "failed"]
         /\ IF error = "none"
            THEN set_progress(workers[w].thread, "Generating detailed report...", TRUE)
            ELSE set_progress(workers[w].thread, error_status(error), FALSE)
  /\ UNCHANGED << gatewayVars, REPORTLAB_AVAILABLE, main_pc, dialog, notes_text,
                  filename_entry, uploaded_images, generate_button, timers, clicks,
                  files, emission >>

\* detailed_notes = self.llm_manager.generate_detailed_notes(notes) (ui.py:374-377)
expand(w) ==
  /\ workers[w].pc = "expand"
  /\ set_progress(workers[w].thread, "Generating detailed notes with AI...", TRUE)
  /\ \E response \in WorkerResponses(DETAILED_MARKER) :
       LET notes   == workers[w].notes
           outcome == generate_detailed_notes(model, GPT4ALL_AVAILABLE, notes, response)
       IN  /\ workers' = [workers EXCEPT
                 ![w].detailed_notes = outcome.result,
                 ![w].pc = "summarize",
                 ![w].log = Append(@, Step("expand", workers[w].thread, << notes >>,
                                           outcome.result))]
           /\ open_contexts' = open_contexts + left_open(outcome.events)
  /\ UNCHANGED << GPT4ALL_AVAILABLE, models_dir, llm, model, load_attempts,
                  load_failed, call, info, REPORTLAB_AVAILABLE, main_pc, dialog,
                  notes_text, filename_entry, uploaded_images, generate_button,
                  timers, clicks, files, emission >>

\* a pipeline that summarizes the notes as entered
summarize_raw_notes(w) ==
  /\ workers[w].pc = "summarize"
  /\ set_progress(workers[w].thread, "Generating AI summary...", TRUE)
  /\ \E response \in WorkerResponses(SUMMARY_MARKER) :
       LET notes   == workers[w].notes
           outcome == generate_summary(model, GPT4ALL_AVAILABLE, notes, response)
       IN  /\ workers' = [workers EXCEPT
                 ![w].summary = outcome.result,
                 ![w].pc = "render",
                 ![w].log = Append(@, Step("summarize", workers[w].thread,
                                           << notes >>, outcome.result))]
           /\ open_contexts' = open_contexts + left_open(outcome.events)
  /\ UNCHANGED << GPT4ALL_AVAILABLE, models_dir, llm, model, load_attempts,
                  load_failed, call, info, REPORTLAB_AVAILABLE, main_pc, dialog,
                  notes_text, filename_entry, uploaded_images, generate_button,
                  timers, clicks, files, emission >>

\* summary = self.llm_manager.generate_summary(detailed_notes) (ui.py:380-383)
summarize(w) ==
  /\ workers[w].pc = "summarize"
  /\ set_progress(workers[w].thread, "Generating AI summary...", TRUE)
  /\ \E response \in WorkerResponses(SUMMARY_MARKER) :
       LET detailed_notes == workers[w].detailed_notes
           outcome == generate_summary(model, GPT4ALL_AVAILABLE, detailed_notes,
                                       response)
       IN  /\ workers' = [workers EXCEPT
                 ![w].summary = outcome.result,
                 ![w].pc = "render",
                 ![w].log = Append(@, Step("summarize", workers[w].thread,
                                           << detailed_notes >>, outcome.result))]
           /\ open_contexts' = open_contexts + left_open(outcome.events)
  /\ UNCHANGED << GPT4ALL_AVAILABLE, models_dir, llm, model, load_attempts,
                  load_failed, call, info, REPORTLAB_AVAILABLE, main_pc, dialog,
                  notes_text, filename_entry, uploaded_images, generate_button,
                  timers, clicks, files, emission >>

\* the elements of a list
Range(list) == {list[k] : k \in 1..Len(list)}

\* self.report_generator.generate_detailed_report(...) (ui.py:386-395), then
\* the last line of the try block of generate() (ui.py:346) or, when the
\* emission raises, its except clause (ui.py:347-350)
render(w) ==
  /\ workers[w].pc = "render"
  /\ \E faults \in Faults :
       LET images  == uploaded_images
           emitted == generate_detailed_report(files, workers[w].notes,
                        workers[w].detailed_notes, images, workers[w].summary,
                        workers[w].filename, REPORTLAB_AVAILABLE, faults)
       IN  /\ faults.unreadable \subseteq Range(images)
           /\ files' = emitted.files
           /\ workers' = [workers EXCEPT
                 ![w].error = IF emitted.raised THEN EMISSION_FAILED ELSE @,
                 ![w].reported = IF emitted.raised THEN EXCEPT_CLAUSE ELSE @,
                 ![w].pc = IF emitted.raised THEN "failed" ELSE "done",
                 ![w].log = Append(@, Step("render", workers[w].thread,
                                           << workers[w].notes,
                                              workers[w].detailed_notes, images,
                                              workers[w].summary,
                                              workers[w].filename >>,
                                           << emitted.raised, emitted.markdown_path,
                                              emitted.pdf_path >>))]
           /\ IF emitted.raised
              THEN set_progress(workers[w].thread, error_status(EMISSION_FAILED), FALSE)
              ELSE set_progress(workers[w].thread,
                                "Detailed report generated successfully!", FALSE)
  /\ UNCHANGED << gatewayVars, REPORTLAB_AVAILABLE, main_pc, dialog, notes_text,
                  filename_entry, uploaded_images, generate_button, timers, clicks, emission >>

\* the steps of the background threads
worker_step ==
  \/ \E w \in 1..Len(workers) : generate_start(w)
  \/ \E w \in 1..Len(workers) : expand(w)
  \/ \E w \in 1..Len(workers) : summarize(w)
  \/ \E w \in 1..Len(workers) : render(w)

Next ==
  \/ import_modules
  \/ main
  \/ clear_placeholder
  \/ type_notes
  \/ type_filename
  \/ upload_images
  \/ clear_images
  \/ remove_image
  \/ (clicks = 0 /\ generate_detailed_report_async)
  \/ enable_generate_button
  \/ worker_step

\* a session with one generate action: start-up, every handler of the
\* interface thread, and the background thread of the action
Spec == Init /\ [][Next]_vars

\* thread w has been started and has not ended; a step of worker_step is
\* enabled exactly when there is such a thread
running(w) == workers[w].pc \in {"started", "expand", "summarize", "render"}

\* WF_vars(worker_step) with its ENABLED written out: a background thread
\* that can run goes on to its next statement (the calls it makes return or
\* raise)
threads_run ==
  []<>(~(\E w \in 1..Len(workers) : running(w))) \/ []<><<worker_step>>_vars

\* the same session when the threads are scheduled: the main loop of Tk runs
\* a due root.after callback, and the background threads run
SpecFair == Spec /\ WF_vars(enable_generate_button) /\ threads_run

\* the notes field has had the focus, so the placeholder is gone
focused == ~contains(notes_text_get, ENTER_YOUR_NOTES)

NextRuns ==
  \/ import_modules
  \/ main
  \/ clear_placeholder
  \/ type_notes
  \/ (clicks < MaxRuns /\ focused /\ generate_detailed_report_async)
  \/ enable_generate_button
  \/ worker_step

\* a session with up to MaxRuns generate actions, whose background threads
\* run side by side; the user enters the notes, then generates
SpecRuns == Init /\ [][NextRuns]_vars


\* a session before any generate action: the user edits the fields and
\* picks, removes and clears images, the dialog showing two files
SpecImages ==
  /\ Init
  /\ [][\/ import_modules
        \/ main
        \/ clear_placeholder
        \/ type_notes
        \/ type_filename
        \/ upload_images_from({PHOTO_PNG, SCAN_JPG})
        \/ clear_images
        \/ remove_image]_vars

---------------------------------------------------------------------------
(* The Report Emitter used by itself: a caller that has imported the       *)
(* modules calls the two public methods of ReportGenerator                 *)

\* emissions per session in SpecEmitter
MaxEmissions == 2

\* the report names a caller passes: 'a' and 'a-detailed'
EmitterNames ==
  { << "a" >>, << "a", "-", "d", "e", "t", "a", "i", "l", "e", "d" >> }

\* the image lists a caller passes: none, or 'in/scan.jpg' and then
\* '/home/u/photo.png'
EmitterImages ==
  { << >>, << << "i", "n", "/", "s", "c", "a", "n", ".", "j", "p", "g" >>, PHOTO_PNG >> }

\* the record of a call of op and of what it returned
Emitted(op, notes, images, filename, faults, result) ==
  [op |-> op, n |-> emission.n + 1, notes |-> notes, images |-> images,
   filename |-> filename,
   faults |-> faults, raised |-> result.raised,
   markdown_path |-> result.markdown_path, pdf_path |-> result.pdf_path]

\* report_generator.generate_report(notes, images, summary, filename)
GenerateReport ==
  /\ main_pc = "imported"
  /\ emission.n < MaxEmissions
  /\ \E images \in EmitterImages, filename \in EmitterNames :
       \E unreadable \in SUBSET Range(images), write_fails, build_fails \in BOOLEAN :
         LET faults  == [unreadable |-> unreadable, write_fails |-> write_fails,
                         build_fails |-> build_fails]
             emitted == generate_report(files, << "n" >>, images, << "s" >>, filename,
                                        REPORTLAB_AVAILABLE, faults)
         IN  /\ files' = emitted.files
             /\ emission' = Emitted("generate_report", << "n" >>, images, filename, faults,
                                    emitted)
  /\ UNCHANGED << gatewayVars, REPORTLAB_AVAILABLE, main_pc, dialog, notes_text,
                  filename_entry, uploaded_images, generate_button, timers,
                  progress_var, progress_bar, status_thread, clicks, workers >>

\* report_generator.generate_detailed_report(original_notes, detailed_notes,
\* images, summary, filename)
GenerateDetailedReport ==
  /\ main_pc = "imported"
  /\ emission.n < MaxEmissions
  /\ \E images \in EmitterImages, filename \in EmitterNames :
       \E unreadable \in SUBSET Range(images), write_fails, build_fails \in BOOLEAN :
         LET faults  == [unreadable |-> unreadable, write_fails |-> write_fails,
                         build_fails |-> build_fails]
             emitted == generate_detailed_report(files, << "n" >>, << "n", "." >>,
                          images, << "s" >>, filename, REPORTLAB_AVAILABLE, faults)
         IN  /\ files' = emitted.files
             /\ emission' = Emitted("generate_detailed_report", << "n" >>, images,
                                    filename, faults, emitted)
  /\ UNCHANGED << gatewayVars, REPORTLAB_AVAILABLE, main_pc, dialog, notes_text,
                  filename_entry, uploaded_images, generate_button, timers,
                  progress_var, progress_bar, status_thread, clicks, workers >>

\* what gpt4all and the models directory are does not matter to the emitter
InitEmitter == Init /\ ~GPT4ALL_AVAILABLE /\ models_dir = NoDirectory

NextEmitter ==
  \/ import_modules
  \/ GenerateReport
  \/ GenerateDetailedReport

\* a caller imports the modules and emits up to MaxEmissions reports
SpecEmitter == InitEmitter /\ [][NextEmitter]_vars

---------------------------------------------------------------------------
(* The notes of a report: a caller that has imported the modules calls     *)
(* generate_report with notes of its own                                   *)

\* reporter.py:543: the text of a note: 'buy milk'
BUY_MILK ==
  << "b", "u", "y", " ", "m", "i", "l", "k" >>

\* the notes a caller passes: the short texts over a letter, the blank, the
\* line break and the three bullet glyphs, 'buy milk' behind each glyph and
\* behind two glyphs, and two items around a blank line
Notes ==
  Strings({"a", " ", "\n", BULLET, "-", "*"}, MaxTextLen)
    \cup { << g, " " >> \o BUY_MILK : g \in {BULLET, "-", "*"} }
    \cup { << "*", " ", "-", " " >> \o BUY_MILK,
           << "-", "a", "\n", " ", "\n", "*", " ", "a" >> }

\* report_generator.generate_report(notes, [], summary, 'a')
GenerateReportOfNotes ==
  /\ main_pc = "imported"
  /\ emission.n < MaxEmissions
  /\ \E notes \in Notes :
       LET faults  == [unreadable |-> {}, write_fails |-> FALSE, build_fails |-> FALSE]
           emitted == generate_report(files, notes, << >>, << "s" >>, << "a" >>,
                                      REPORTLAB_AVAILABLE, faults)
       IN  /\ files' = emitted.files
           /\ emission' = Emitted("generate_report", notes, << >>, << "a" >>, faults,
                                  emitted)
  /\ UNCHANGED << gatewayVars, REPORTLAB_AVAILABLE, main_pc, dialog, notes_text,
                  filename_entry, uploaded_images, generate_button, timers,
                  progress_var, progress_bar, status_thread, clicks, workers >>

\* a caller imports the modules and emits up to MaxEmissions reports of notes
SpecNotes == InitEmitter /\ [][import_modules \/ GenerateReportOfNotes]_vars

---------------------------------------------------------------------------
(* Properties of the Model Gateway, under SpecGateway                      *)

\* the operation the caller holds the outcome of invoked the model
invoked == call.outcome.events # << >>

\* text has nothing but whitespace in it
blank(text) == \A i \in 1..Len(text) : text[i] \in WS

\* the marker that ends the prompt of an operation
marker_of(op) ==
  IF op = "generate_summary" THEN SUMMARY_MARKER
  ELSE IF op = "generate_detailed_notes" THEN DETAILED_MARKER
  ELSE ENHANCED_MARKER

\* the deterministic fallback of operation c.op on the input of call c
fallback_of(c) ==
  IF c.op = "generate_summary" THEN generate_fallback_summary(c.text)
  ELSE IF c.op = "generate_detailed_notes" THEN generate_fallback_detailed_notes(c.text)
  ELSE generate_fallback_enhanced_notes(c.text, c.context_type)

\* the fixed string an operation returns for blank text
placeholder_of(op) ==
  IF op = "generate_summary" THEN NO_NOTES_PROVIDED
  ELSE IF op = "generate_detailed_notes" THEN NO_NOTES_TO_EXPAND
  ELSE NO_NOTES_TO_ENHANCE

\* C1: whatever the text, and whether the model is loaded, absent, raising or
\* answering with whitespace, generate_summary and generate_detailed_notes
\* return a non-empty string and raise nothing.
C1_NonEmptyResult ==
  call.op \in {"generate_summary", "generate_detailed_notes"}
    => /\ call.outcome.result # << >>
       /\ ~call.outcome.raised

\* the expander was asked about a line that is a bullet glyph only, the model
\* answered with whitespace, and the result is the closing paragraph alone
C1_Witness ==
  /\ call.op = "generate_detailed_notes"
  /\ call.text = << "-" >>
  /\ invoked
  /\ call.response = Returns(<< " ", "\n" >>)
  /\ call.outcome.result = OVERVIEW_OPEN \o << "0" >> \o OVERVIEW_CLOSE

\* C2: when the invocation of the model raises, or its response is blank, or
\* nothing but whitespace follows the echoed marker, each of the three
\* operations returns the deterministic fallback of its input, and nothing is
\* raised to the caller.
C2_FallbackOnFailedInvocation ==
  ( /\ call.op \in {"generate_summary", "generate_detailed_notes",
                    "enhance_notes_with_context"}
    /\ invoked
    /\ \/ call.response.throws
       \/ blank(call.response.text)
       \/ /\ contains(call.response.text, marker_of(call.op))
          /\ blank(after_last(call.response.text, marker_of(call.op))) )
    => /\ call.outcome.result = fallback_of(call)
       /\ ~call.outcome.raised

\* the summarizer got the echoed marker with whitespace behind it and
\* returned the fallback summary
C2_Witness ==
  /\ call.op = "generate_summary"
  /\ invoked
  /\ call.response = Returns(<< "o", "k", " " >> \o SUMMARY_MARKER \o << "\n" >>)
  /\ call.text = << "a", ".", "a" >>
  /\ call.outcome.result = TODAY_INVOLVED \o << "2" >> \o DOCUMENTED_ACTIVITIES

\* the models/ directory gives the Gateway no artifact to load
no_artifact(dir) == ~dir.exists \/ (dir.listable /\ gguf_files(dir.files) = << >>)

\* C3: construction of the Gateway completes; when the models directory is
\* missing or holds no artifact, when gpt4all is absent or when loading raised,
\* the handle is empty, and every later call returns without invoking the
\* model: the placeholder for blank text, the fallback otherwise.
C3_ConstructionCompletes ==
  /\ llm # "raised"
  /\ ( /\ llm = "constructed"
       /\ no_artifact(models_dir) \/ ~GPT4ALL_AVAILABLE \/ load_failed )
       => /\ ~model.loaded
          /\ call.op # "none"
               => /\ ~invoked
                  /\ call.outcome.result =
                       IF blank(call.text) THEN placeholder_of(call.op)
                       ELSE fallback_of(call)

\* C5: for text that is blank, generate_summary and generate_detailed_notes
\* return their fixed placeholder and do not invoke the model, loaded or not.
C5_BlankTextPlaceholder ==
  ( /\ call.op \in {"generate_summary", "generate_detailed_notes"}
    /\ blank(call.text) )
    => /\ call.outcome.result = placeholder_of(call.op)
       /\ ~invoked

\* with a model loaded, the summarizer was asked about a text of whitespace
C5_Witness ==
  /\ model.loaded
  /\ GPT4ALL_AVAILABLE
  /\ call.op = "generate_summary"
  /\ call.text = << " ", "\n" >>
  /\ call.outcome.result = NO_NOTES_PROVIDED

\* C6: once the Gateway is constructed no step changes the handle or loads
\* again, and GPT4All(model_path) is called at most once in a session.
C6_HandleImmutable ==
  /\ [](load_attempts <= 1)
  /\ [][llm = "constructed" => (model' = model /\ load_attempts' = load_attempts)]_vars

\* a generation on a loaded model raised, and the handle is the one loaded
C6_Witness ==
  /\ llm = "constructed"
  /\ load_attempts = 1
  /\ model = LoadedModel(ORCA_GGUF)
  /\ invoked
  /\ call.response.throws

\* C7: an operation that uses the model enters one chat session, calls
\* generate once inside it and leaves it before returning, also when generate
\* raises; no session is open once an operation has returned.
C7_ContextClosed ==
  /\ open_contexts = 0
  /\ call.op # "none"
       => /\ call.outcome.events \in {<< >>, << "enter", "generate", "exit" >>}
          /\ invoked <=> (use_model(model, GPT4ALL_AVAILABLE) /\ ~blank(call.text))

\* generate raised inside the session of the expander
C7_Witness ==
  /\ call.op = "generate_detailed_notes"
  /\ call.response.throws
  /\ call.outcome.events = << "enter", "generate", "exit" >>
  /\ open_contexts = 0

---------------------------------------------------------------------------
(* Properties of the application, under Spec and SpecRuns                  *)

\* C4: with no artifact in the models directory the application starts and
\* reaches its interface, and shows no error dialog.
C4_StartsWithoutModel ==
  (main_pc \in {"running", "exit_1"} /\ no_artifact(models_dir))
    => (main_pc = "running" /\ dialog = "none")

PIPELINE == << "expand", "summarize", "render" >>

\* C8: the calls of every background thread are a prefix of expand,
\* summarize, render; the summarizer gets what the expander returned; the
\* emitter gets the notes the expander got, what the expander returned and
\* what the summarizer returned.
C8_PipelineOrder ==
  \A w \in 1..Len(workers) :
    LET log == workers[w].log
    IN  /\ Len(log) <= Len(PIPELINE)
        /\ \A k \in 1..Len(log) : log[k].step = PIPELINE[k]
        /\ Len(log) >= 2 => log[2].args = << log[1].result >>
        /\ Len(log) >= 3 => /\ log[3].args[1] = log[1].args[1]
                            /\ log[3].args[2] = log[1].result
                            /\ log[3].args[4] = log[2].result

\* a thread expanded the typed notes with the model, summarized with the
\* fallback, and wrote both files
C8_Witness ==
  \E w \in 1..Len(workers) :
    LET log == workers[w].log
    IN  /\ Len(log) = 3
        /\ log[1].args = << CALL_CLIENT >>
        /\ log[1].result = << "o", "k" >>
        /\ log[2].result = << "o", "k", "." >>
        /\ log[3].result[1] = FALSE

\* C9: every generate action has started one background thread; a thread
\* makes each call of the pipeline at most once; every call of the pipeline is
\* made by the background thread that owns it, none by the main thread.
C9_OneWorkerPerAction ==
  /\ Len(workers) = clicks
  /\ \A w \in 1..Len(workers) :
       LET log == workers[w].log
       IN  /\ workers[w].thread = Thread(w)
           /\ workers[w].thread # MainThread
           /\ \A k \in 1..Len(log) : log[k].thread = workers[w].thread
           /\ \A j, k \in 1..Len(log) : log[j].step = log[k].step => j = k

\* two generate actions, two threads, each through its whole pipeline
C9_Witness ==
  /\ clicks = 2
  /\ Len(workers) = 2
  /\ \A w \in 1..Len(workers) : Len(workers[w].log) = 3

\* C10: a pending timer can fire whatever the background threads are doing,
\* and when it fires the button is enabled.
C10_ReenabledRegardless ==
  /\ []((main_pc = "running" /\ timers > 0) => ENABLED enable_generate_button)
  /\ [][timers' < timers => generate_button' = "normal"]_vars

\* two background threads are about to write the files of one report name
\* while the button is enabled again
C10_Witness ==
  /\ generate_button = "normal"
  /\ \E a, b \in 1..Len(workers) :
       /\ a # b
       /\ workers[a].pc = "render"
       /\ workers[b].pc = "render"
       /\ workers[a].filename = workers[b].filename
       /\ workers[a].filename # << >>

---------------------------------------------------------------------------
(* Properties of the background run and the interface, under Spec and      *)
(* SpecFair                                                                *)

\* C11: every statement that updates the status text runs in the main
\* thread, none in a background thread.
C11_StatusOnInterfaceThread == status_thread = MainThread

\* the notes, the report name and the images the report of thread w is made
\* from, as things stand: what the thread will read (ui.py:363-364, 391),
\* what it has read, and in the end what it gave the emitter
inputs_of(w) ==
  LET log == workers[w].log
  IN  IF workers[w].pc = "started"
      THEN << strip(notes_text_get), strip(filename_entry), uploaded_images >>
      ELSE IF Len(log) = 3
      THEN << log[3].args[1], log[3].args[5], log[3].args[3] >>
      ELSE << workers[w].notes, workers[w].filename, uploaded_images >>

\* C12: no step taken while a background thread runs, whether uploading,
\* removing or clearing images or editing the notes or the report name,
\* changes the notes, the name or the images its report is made from.
C12_NoSharedInputs ==
  [][\A w \in 1..Len(workers) : running(w) => inputs_of(w)' = inputs_of(w)]_vars

\* C13: a background thread that found the notes or the report name empty
\* has ended in the except clause of generate(), which logged the error, set
\* the error status and showed the error dialog; it called neither the
\* expander nor the summarizer nor the emitter, and no file was written.
C13_MissingInputFails ==
  \A w \in 1..Len(workers) :
    (workers[w].pc # "started" /\ (workers[w].notes = << >> \/ workers[w].filename = << >>))
      => /\ workers[w].pc = "failed"
         /\ workers[w].error \in {ENTER_SOME_NOTES, ENTER_A_FILENAME}
         /\ workers[w].reported = EXCEPT_CLAUSE
         /\ workers[w].log = << >>
         /\ Len(workers) = 1 => (files = {} /\ progress_var = error_status(workers[w].error))

\* the notes were entered and the report name was cleared before the action
C13_Witness ==
  /\ Len(workers) = 1
  /\ workers[1].pc = "failed"
  /\ workers[1].notes = CALL_CLIENT
  /\ workers[1].filename = << >>
  /\ workers[1].error = ENTER_A_FILENAME
  /\ progress_bar = "stopped"

\* C14: once a background thread has failed, on a missing input or on an
\* exception of the emitter, the button gets enabled and the progress bar
\* stopped; the failed thread does nothing more, and the files stay as they
\* were when it failed.
C14_ReadyAfterFailure ==
  /\ (\E w \in 1..Len(workers) : workers[w].pc = "failed")
       ~> (generate_button = "normal" /\ progress_bar = "stopped")
  /\ [][\A w \in 1..Len(workers) :
          workers[w].pc = "failed"
            => /\ workers'[w] = workers[w]
               /\ Len(workers) = 1 => files' = files]_vars

\* the PDF failed after the markdown file was written; the file is there,
\* the button is enabled and the progress bar is stopped
C14_Witness ==
  /\ Len(workers) = 1
  /\ workers[1].pc = "failed"
  /\ workers[1].error = EMISSION_FAILED
  /\ files # {}
  /\ generate_button = "normal"
  /\ progress_bar = "stopped"
  /\ timers = 0

---------------------------------------------------------------------------
(* Properties of the Report Emitter, under SpecEmitter                     *)

DETAILED == "generate_detailed_report"

\* the paths the two artifacts of emission e are expected at
expected_md(e) ==
  e.filename \o (IF e.op = DETAILED THEN DETAILED_MD ELSE << ".", "m", "d" >>)
expected_pdf(e) ==
  e.filename \o (IF e.op = DETAILED THEN DETAILED_PDF ELSE << ".", "p", "d", "f" >>)

has_file(path) == \E f \in files : f.path = path
file_at(path)  == CHOOSE f \in files : f.path = path

\* the source paths of a list of copied images
originals(copied) == [k \in 1..Len(copied) |-> copied[k].original_path]

\* the images of emission e whose copy does not fail, in the order given
readable(e) == SelectSeq(e.images, LAMBDA p : p \notin e.faults.unreadable)

\* C15: when reportlab is not available the module of the emitter is imported
\* all the same, and an emission whose markdown file can be written raises
\* nothing, writes that file and returns its path, and returns None as the
\* path of the PDF.
C15_DegradedWithoutRenderer ==
  ~REPORTLAB_AVAILABLE
    => /\ main_pc # "import_error"
       /\ (emission.op # "none" /\ ~emission.faults.write_fails)
            => /\ ~emission.raised
               /\ emission.markdown_path = expected_md(emission)
               /\ has_file(emission.markdown_path)
               /\ emission.pdf_path = NoPath

\* C16: when only the markdown file fails the PDF of the emission is
\* written, and when only the PDF fails the markdown file is written.
C16_ArtifactsIndependent ==
  emission.op # "none"
    => /\ (emission.faults.write_fails /\ ~emission.faults.build_fails)
            => has_file(expected_pdf(emission))
       /\ (emission.faults.build_fails /\ ~emission.faults.write_fails)
            => has_file(expected_md(emission))

\* C17: an emission whose two files can be written raises nothing and
\* returns both paths, whatever images fail to be copied; both files list the
\* images whose copy did not fail, all of them and in the order given, and
\* each of those is on disk as a copy of its source.
C17_FailedCopyOmitted ==
  (emission.op # "none" /\ ~emission.faults.write_fails /\ ~emission.faults.build_fails)
    => /\ ~emission.raised
       /\ emission.markdown_path = expected_md(emission)
       /\ emission.pdf_path = expected_pdf(emission)
       /\ has_file(emission.markdown_path)
       /\ has_file(emission.pdf_path)
       /\ LET md  == file_at(emission.markdown_path).content.images
              pdf == file_at(emission.pdf_path).content.images
          IN  /\ originals(md) = readable(emission)
              /\ pdf = md
              /\ \A k \in 1..Len(md) :
                   \E f \in files : /\ f.path = md[k].relative_path
                                    /\ f.content.copy_of = md[k].original_path

\* of two images the second could not be copied; the report has the first
C17_Witness ==
  /\ emission.op = DETAILED
  /\ Len(emission.images) = 2
  /\ emission.faults.unreadable = {PHOTO_PNG}
  /\ ~emission.raised
  /\ Len(file_at(emission.markdown_path).content.images) = 1
  /\ file_at(emission.markdown_path).content.images[1].original_path = emission.images[1]

\* the name of the k-th image of a report when the numbers are consecutive
consecutive_name(copied, k) ==
  IMAGE_UNDERSCORE \o two_digits(k) \o splitext_ext(copied[k].original_path)

\* C18: the images of a report are named image_01, image_02, ... in the order
\* of the list, each with the extension of its source, and both files list
\* them in that order.
C18_ConsecutiveNames ==
  (emission.op # "none" /\ ~emission.raised)
    => LET md  == file_at(emission.markdown_path).content.images
           pdf == file_at(emission.pdf_path).content.images
       IN  /\ \A k \in 1..Len(md) : md[k].filename = consecutive_name(md, k)
           /\ \A j, k \in 1..Len(md) :
                j < k => \E a, b \in 1..Len(emission.images) :
                           /\ a < b
                           /\ emission.images[a] = md[j].original_path
                           /\ emission.images[b] = md[k].original_path
           /\ pdf = md

\* C18 as amended: an image is named after its position in the list given,
\* image_<position> with the extension of its source, so the numbers leave out
\* the positions of the images that could not be copied and are consecutive
\* from 01 on when every copy succeeds; both files list the images in the
\* order of the list.
C18_NamedByPosition ==
  (emission.op # "none" /\ ~emission.raised)
    => LET md  == file_at(emission.markdown_path).content.images
           pdf == file_at(emission.pdf_path).content.images
           n   == Len(emission.images)
       IN  /\ \E pos \in [1..Len(md) -> 1..n] :
                /\ \A j, k \in 1..Len(md) : j < k => pos[j] < pos[k]
                /\ \A k \in 1..Len(md) :
                     /\ md[k].original_path = emission.images[pos[k]]
                     /\ md[k].filename = IMAGE_UNDERSCORE \o two_digits(pos[k])
                                           \o splitext_ext(md[k].original_path)
           /\ emission.faults.unreadable = {}
                => /\ Len(md) = n
                   /\ \A k \in 1..n : md[k].filename = consecutive_name(md, k)
           /\ pdf = md

\* the first of two images could not be copied: the one image of the report
\* is image_02.png
C18_Witness ==
  /\ emission.op = "generate_report"
  /\ Len(emission.images) = 2
  /\ emission.faults.unreadable = {emission.images[1]}
  /\ ~emission.raised
  /\ originals(file_at(emission.pdf_path).content.images) = << PHOTO_PNG >>
  /\ file_at(emission.pdf_path).content.images[1].filename =
       << "i", "m", "a", "g", "e", "_", "0", "2", ".", "p", "n", "g" >>

\* the two artifacts that a report of kind op and name filename is kept in
artifacts(op, filename) ==
  LET e == [op |-> op, filename |-> filename]
  IN  {f \in files : f.path \in {expected_md(e), expected_pdf(e)}}

\* the file at path is a file of a report of kind op: the dual-version report
\* is the one that has detailed notes in it
written_by(path, op) ==
  ("detailed_notes" \in DOMAIN file_at(path).content) <=> (op = DETAILED)

\* an emission that raised nothing has returned the paths made of its name,
\* and the files at those paths are its own, with its images; no path has
\* two files
last_emission_kept ==
  /\ \A f, g \in files : f.path = g.path => f = g
  /\ (emission.op # "none" /\ ~emission.raised)
       => /\ emission.markdown_path = expected_md(emission)
          /\ emission.pdf_path = expected_pdf(emission)
          /\ \A path \in {emission.markdown_path, emission.pdf_path} :
               /\ has_file(path)
               /\ written_by(path, emission.op)
               /\ originals(file_at(path).content.images) = readable(emission)

\* C19: the paths of an emission are made of its name alone, N.md and N.pdf
\* or N-detailed.md and N-detailed.pdf; a path has one file, the files of an
\* emission hold what it wrote, and an emission leaves the two artifacts of
\* every other name, and of the other kind of report, as they were.
C19_OnePairPerName ==
  /\ []last_emission_kept
  /\ [][emission' # emission
          => \A op \in {"generate_report", DETAILED}, filename \in EmitterNames :
               << op, filename >> # << emission'.op, emission'.filename >>
                 => artifacts(op, filename)' = artifacts(op, filename)]_vars

\* C19 as amended: the paths of an emission are made of its name and the kind
\* of report, N.md and N.pdf or N-detailed.md and N-detailed.pdf; a path has
\* one file, the files of an emission hold what it wrote, and an emission
\* leaves every artifact at another path than its two as it was. The
\* single-version report named N-detailed and the dual-version report named N
\* have the same two paths, and each replaces the files of the other.
C19_OneFilePerPath ==
  /\ []last_emission_kept
  /\ [][emission' # emission
          => \A f \in files :
               ( /\ f.content.kind \in {"markdown", "pdf"}
                 /\ f.path \notin {expected_md(emission'), expected_pdf(emission')} )
                 => f \in files']_vars
  /\ [](\A a, b \in EmitterNames :
          LET single == [op |-> "generate_report", filename |-> a]
              dual   == [op |-> DETAILED, filename |-> b]
          IN  expected_md(single) = expected_md(dual)
                <=> a = b \o << "-", "d", "e", "t", "a", "i", "l", "e", "d" >>)

\* the dual-version report named a was emitted after the single-version
\* report named a-detailed and its PDF failed: a-detailed.md is the new
\* markdown file, a-detailed.pdf still the PDF of the other report
C19_Witness ==
  /\ emission.n = 2
  /\ emission.op = DETAILED
  /\ emission.filename = << "a" >>
  /\ emission.faults.build_fails
  /\ ~emission.faults.write_fails
  /\ has_file(expected_md(emission))
  /\ has_file(expected_pdf(emission))
  /\ written_by(expected_md(emission), DETAILED)
  /\ written_by(expected_pdf(emission), "generate_report")

---------------------------------------------------------------------------
(* The fallback summarizer on given notes, under SpecGateway               *)

\* 'Met the team. Reviewed code.'
MET_REVIEWED ==
  << "M", "e", "t", " ", "t", "h", "e", " ", "t", "e", "a", "m", ".", " ", "R", "e", "v", "i",
     "e", "w", "e", "d", " ", "c", "o", "d", "e", "." >>

\* 'Met the team.'
MET ==
  << "M", "e", "t", " ", "t", "h", "e", " ", "t", "e", "a", "m", "." >>

\* C20: without a model, generate_summary of 'Met the team. Reviewed code.
\* Went home.' returns 'Met the team. Reviewed code.'
C20_FirstTwoFragments ==
  (call.op = "generate_summary" /\ call.text = MET_REVIEWED_WENT /\ ~invoked)
    => call.outcome.result = MET_REVIEWED

\* C20 as amended: without a model, generate_summary of 'Met the team.
\* Reviewed code. Went home.' returns 'Met the team.', the one fragment of at
\* least three words; 'Reviewed code' and 'Went home' have two words each
\* and are left out.
C20_OnlyQualifyingFragment ==
  (call.op = "generate_summary" /\ call.text = MET_REVIEWED_WENT /\ ~invoked)
    => call.outcome.result = MET

\* the summarizer was called on the three sentences with no model loaded
C20_Witness ==
  /\ call.op = "generate_summary"
  /\ call.text = MET_REVIEWED_WENT
  /\ ~model.loaded
  /\ ~invoked
  /\ call.outcome.result = MET
  /\ words(MET) = 3

---------------------------------------------------------------------------
(* The fallback expander, line by line                                     *)

\* the expander ran without a model on notes that have a non-empty line
fallback_expanded ==
  /\ call.op = "generate_detailed_notes"
  /\ ~invoked
  /\ stripped_lines(call.text) # << >>

\* the lines of text that are left after trimming and removing the bullets
clean_lines(text) ==
  LET lines == stripped_lines(text)
  IN  drop_empty([k \in 1..Len(lines) |-> strip(lstrip(lines[k], BULLET_CHARS))])

\* how often sub occurs in s
count(s, sub) == Cardinality(occurrences(s, sub))

\* '**Activity 1:** Call client' + long form + closing paragraph of count 1
CALL_CLIENT_EXPANDED ==
  ACTIVITY_OPEN \o << "1" >> \o ACTIVITY_CLOSE \o CALL_CLIENT \o LONG_FORM
    \o OVERVIEW_OPEN \o << "1" >> \o OVERVIEW_CLOSE

\* C21: in the fallback expander's result the long-form template occurs once
\* for every bullet-stripped line of fewer than five words and the shorter
\* template once for every line of five words or more, the closing paragraph
\* states the number of entries in the result, and 'Call client' gives one
\* long-form entry and the count 1.
C21_TemplateByWordCount ==
  fallback_expanded =>
    LET clean  == clean_lines(call.text)
        result == call.outcome.result
    IN  /\ count(result, LONG_FORM)
             = Cardinality({k \in 1..Len(clean) : words(clean[k]) < 5})
        /\ count(result, SHORT_FORM)
             = Cardinality({k \in 1..Len(clean) : words(clean[k]) >= 5})
        /\ endswith(result, OVERVIEW_OPEN \o str(count(result, ACTIVITY_OPEN))
                              \o OVERVIEW_CLOSE)
        /\ (call.text = CALL_CLIENT => result = CALL_CLIENT_EXPANDED)

\* the expander ran without a model on a list of a short and a long line
C21_Witness ==
  /\ fallback_expanded
  /\ Len(clean_lines(call.text)) = 2
  /\ words(clean_lines(call.text)[1]) = 2
  /\ words(clean_lines(call.text)[2]) = 5
  /\ count(call.outcome.result, LONG_FORM) = 1
  /\ count(call.outcome.result, SHORT_FORM) = 1
  /\ count(call.outcome.result, ACTIVITY_OPEN) = 2

\* C24: in the fallback expander's result the entries are numbered 1, 2, ...,
\* k in their order, k being the number of entries, for every input, lines
\* of bullet glyphs alone included.
C24_NumberedConsecutively ==
  fallback_expanded =>
    LET result == call.outcome.result
        at     == occurrences(result, ACTIVITY_OPEN)
    IN  \A j \in 1..Cardinality(at) :
          LET p == CHOOSE p \in at : Cardinality({q \in at : q < p}) = j - 1
          IN  p \in occurrences(result, ACTIVITY_OPEN \o str(j) \o ACTIVITY_CLOSE)

\* a blank line stands in s before place p
after_blank_line(s, p) == p >= 3 /\ s[p - 1] = "\n" /\ s[p - 2] = "\n"

\* C25: in the fallback expander's result a blank line stands before every
\* entry but the first and before the closing paragraph, and notes none of
\* whose lines is expanded give the fixed placeholder and no closing
\* paragraph.
C25_BlankLineBetweenPieces ==
  fallback_expanded =>
    LET result  == call.outcome.result
        entries == occurrences(result, ACTIVITY_OPEN)
        closing == occurrences(result, Tail(OVERVIEW_OPEN))
    IN  IF clean_lines(call.text) = << >>
        THEN result \in {NO_ACTIVITIES_TO_EXPAND, NO_NOTES_TO_EXPAND} /\ closing = {}
        ELSE /\ \A p \in entries : p = 1 \/ after_blank_line(result, p)
             /\ Cardinality(closing) = 1
             /\ \A p \in closing : after_blank_line(result, p)

---------------------------------------------------------------------------
(* The notes in the text artifact                                          *)

\* the last emission wrote the text artifact of its notes
notes_written ==
  /\ emission.op = "generate_report"
  /\ ~emission.faults.write_fails
  /\ has_file(expected_md(emission))

\* the notes of the text artifact the last emission wrote, line by line
notes_in_artifact == split(file_at(expected_md(emission)).content.notes, "\n")

\* the lines of the notes given to the last emission, without the blank
\* lines before the first and after the last line of text
notes_given == split(strip(emission.notes), "\n")

\* line begins with the marker '- '
marked(line) == Len(line) >= 2 /\ line[1] = "-" /\ line[2] = " "

\* line begins with one marker '- ' and no second marker of any glyph
one_marker(line) ==
  /\ marked(line)
  /\ ~(Len(line) >= 4 /\ line[3] \in {BULLET, "-", "*"} /\ line[4] = " ")

\* C22: in the text artifact every non-empty line of the notes is a line that
\* begins with exactly one '- ' marker and no second marker behind it, a
\* blank line is a blank line, and '* buy milk' is '- buy milk'.
C22_SingleMarker ==
  notes_written =>
    /\ Len(notes_in_artifact) = Len(notes_given)
    /\ \A k \in 1..Len(notes_given) :
         IF strip(notes_given[k]) = << >>
         THEN notes_in_artifact[k] = << >>
         ELSE one_marker(notes_in_artifact[k])
    /\ (emission.notes = << "*", " " >> \o BUY_MILK
          => notes_in_artifact = << << "-", " " >> \o BUY_MILK >>)

---------------------------------------------------------------------------
(* The fallback summarizer, rule by rule                                   *)

\* the summarizer ran without a model on notes that are not blank
fallback_summarized ==
  /\ call.op = "generate_summary"
  /\ ~invoked
  /\ strip(call.text) # << >>

\* the fragments of text between periods, newlines read as spaces, trimmed,
\* the empty ones left out
fragments(text) ==
  LET pieces == split([i \in 1..Len(text) |-> IF text[i] = "\n" THEN " " ELSE text[i]], ".")
  IN  SelectSeq([k \in 1..Len(pieces) |-> strip(pieces[k])], LAMBDA f : f # << >>)

\* the places among the first five of frags that hold at least three words
qualifying(frags) == {k \in 1..Len(frags) : k <= 5 /\ words(frags[k]) >= 3}

\* the least number of a non-empty set of numbers
least(S) == CHOOSE k \in S : \A j \in S : k <= j

\* what the stated rule gives for text
stated_summary(text) ==
  LET frags == fragments(text)
      q     == qualifying(frags)
  IN  IF Len(frags) = 0 THEN DAILY_ACTIVITIES_DOCUMENTED
      ELSE IF Len(frags) = 1 THEN frags[1] \o << "." >>
      ELSE IF q = {} THEN TODAY_INVOLVED \o str(Len(frags)) \o DOCUMENTED_ACTIVITIES
      ELSE IF Cardinality(q) = 1 THEN frags[least(q)] \o << "." >>
      ELSE frags[least(q)] \o << ".", " " >> \o frags[least(q \ {least(q)})] \o << "." >>

\* C23: without a model the summarizer's result is what the stated rule
\* gives: the fixed placeholder for no fragment, the fragment and a period for
\* one fragment whatever its word count, else the first two fragments of at
\* least three words among the first five joined by '. ' with a closing
\* period, else the templated sentence with the number of all fragments;
\* 'Fixed the bug' gives 'Fixed the bug.'.
C23_SummaryByRule ==
  fallback_summarized =>
    /\ call.outcome.result = stated_summary(call.text)
    /\ (call.text = FIXED_THE_BUG => call.outcome.result = FIXED_THE_BUG \o << "." >>)

\* the summarizer ran without a model on seven fragments and joined the first
\* and the third, the two of three words before the fourth
C23_Witness ==
  /\ fallback_summarized
  /\ Len(fragments(call.text)) = 7
  /\ qualifying(fragments(call.text)) = {1, 3, 4}
  /\ call.outcome.result
       = << "a", " ", "b", " ", "c", ".", " ", "e", " ", "f", " ", "g", "." >>

---------------------------------------------------------------------------
(* The fallback of EnhanceWithContext                                      *)

\* the enhancer ran without invoking a model
fallback_enhanced == call.op = "enhance_notes_with_context" /\ ~invoked

\* the prefix and the suffix of a context kind, as the spec lists them
pair_of(kind) ==
  CASE kind = "personal"  -> << PERSONAL_PREFIX, PERSONAL_SUFFIX >>
    [] kind = "technical" -> << TECHNICAL_PREFIX, TECHNICAL_SUFFIX >>
    [] OTHER              -> << PROFESSIONAL_PREFIX, PROFESSIONAL_SUFFIX >>

\* line wrapped in the pair of kind
wrapped(line, kind) ==
  pair_of(kind)[1] \o << " " >> \o line \o << ".", " " >> \o pair_of(kind)[2]

\* C26: without a model, EnhanceWithContext returns the fixed placeholder for
\* notes that are empty after trimming, and otherwise the non-empty
\* bullet-stripped lines in their order, each wrapped in the prefix and
\* suffix of the context kind (of the professional kind when the kind is
\* not a known one), with a blank line between one entry and the next.
C26_WrappedByContext ==
  fallback_enhanced =>
    LET clean == clean_lines(call.text)
    IN  IF strip(call.text) = << >>
        THEN call.outcome.result = NO_NOTES_TO_ENHANCE
        ELSE call.outcome.result
               = join([k \in 1..Len(clean) |-> wrapped(clean[k], call.context_type)],
                      << "\n", "\n" >>)

\* the enhancer ran without a model on a bulleted list of two lines, under a
\* context kind that is not a known one
C26_Witness ==
  /\ fallback_enhanced
  /\ call.context_type \notin {"professional", "personal", "technical"}
  /\ clean_lines(call.text) = << CALL_CLIENT, MET_THE_TEAM_AT_NOON >>
  /\ call.text[1] = BULLET
  /\ count(call.outcome.result, PROFESSIONAL_PREFIX) = 2
  /\ count(call.outcome.result, << "\n", "\n" >>) = 1

---------------------------------------------------------------------------
(* The interface: the placeholder, the re-enable timer, the image list     *)

\* C27: a background thread that read the untouched placeholder from the
\* notes field has failed for missing notes; it called neither the expander
\* nor the summarizer nor the emitter, and no file was written.
C27_PlaceholderRejected ==
  \A w \in 1..Len(workers) :
    (workers[w].pc # "started" /\ workers[w].notes = strip(placeholder_text))
      => /\ workers[w].pc = "failed"
         /\ workers[w].error = ENTER_SOME_NOTES
         /\ workers[w].log = << >>
         /\ Len(workers) = 1 => files = {}

\* C28: at most one re-enable timer is pending, the button is disabled
\* exactly while one is pending, and the step that enables the button again
\* is the callback of the one pending timer, the timer of the last generate
\* action.
C28_OneTimerPending ==
  /\ [](timers <= 1 /\ (generate_button = "disabled" <=> timers = 1))
  /\ [][(generate_button = "disabled" /\ generate_button' = "normal")
          => (timers = 1 /\ timers' = 0)]_vars

\* the second generate action has disabled the button again after the timer
\* of the first has enabled it; the timer of the second is pending
C28_Witness ==
  /\ clicks = 2
  /\ Len(workers) = 2
  /\ generate_button = "disabled"
  /\ timers = 1

\* p stands before q in list
before(list, p, q) ==
  \E i, j \in 1..Len(list) : i < j /\ list[i] = p /\ list[j] = q

\* C29: the list of uploaded images holds no path twice; a step of upload,
\* remove or clear leaves the paths that stay in the list in the order they
\* had and puts the paths it adds behind them, so that the paths stand in
\* the order in which they were first uploaded into the list; and a remove
\* with an index below 0 or from the length of the list on gives the list
\* as it was.
C29_ListWithoutDuplicates ==
  /\ [](\A i, j \in 1..Len(uploaded_images) :
          uploaded_images[i] = uploaded_images[j] => i = j)
  /\ [][\A p, q \in Range(uploaded_images') :
          /\ (p \in Range(uploaded_images) /\ q \in Range(uploaded_images)
                /\ before(uploaded_images, p, q)) => before(uploaded_images', p, q)
          /\ (p \in Range(uploaded_images) /\ q \notin Range(uploaded_images))
                => before(uploaded_images', p, q)]_vars
  /\ [](\A index \in {-2, -1, Len(uploaded_images), Len(uploaded_images) + 1} :
          remove_at(uploaded_images, index) = uploaded_images)

\* the list holds the two files, the second file of the dialog first
C29_Witness ==
  /\ uploaded_images = << SCAN_JPG, PHOTO_PNG >>
  /\ main_pc = "running"

===========================================================================
